---- MODULE Spec2Model ----
(***************************************************************************)
(* Security Research Terminal: the DevTools panel (panel.js, class         *)
(* SecurityResearchTerminal).  Strings are TLA+ strings; the character at  *)
(* position i of s is SubSeq(s, i, i).                                     *)
(***************************************************************************)
EXTENDS Integers, Sequences, FiniteSets, TLC

\* ------------------------------------------------------------------ bounds

\* commandHistory and the output log are never trimmed by the code.  Each
\* specification stops accepting submissions once the history holds its
\* bound of entries, and validation clicks once the log holds MaxOutput lines.
MaxHistory == 4
MaxOutput == 4
MaxCommands == 1
MaxLog == 2

\* ------------------------------------------------------- string primitives

CharAt(s, i) == SubSeq(s, i, i)

\* /\s/ over the characters the model types
IsSpace(c) == c \in {" ", "\t"}

RECURSIVE TrimStart(_)
TrimStart(s) ==
    IF Len(s) > 0 /\ IsSpace(CharAt(s, 1))
    THEN TrimStart(SubSeq(s, 2, Len(s)))
    ELSE s

RECURSIVE TrimEnd(_)
TrimEnd(s) ==
    IF Len(s) > 0 /\ IsSpace(CharAt(s, Len(s)))
    THEN TrimEnd(SubSeq(s, 1, Len(s) - 1))
    ELSE s

\* String.prototype.trim
Trim(s) == TrimEnd(TrimStart(s))

UpperChars == <<"A","B","C","D","E","F","G","H","I","J","K","L","M",
                "N","O","P","Q","R","S","T","U","V","W","X","Y","Z">>
LowerChars == <<"a","b","c","d","e","f","g","h","i","j","k","l","m",
                "n","o","p","q","r","s","t","u","v","w","x","y","z">>

LowerChar(c) ==
    IF \E i \in 1..26 : UpperChars[i] = c
    THEN LowerChars[CHOOSE i \in 1..26 : UpperChars[i] = c]
    ELSE c

RECURSIVE ToLowerCase(_)
\* String.prototype.toLowerCase
ToLowerCase(s) ==
    IF Len(s) = 0 THEN s
    ELSE LowerChar(CharAt(s, 1)) \o ToLowerCase(SubSeq(s, 2, Len(s)))

\* length of the leading run of non-space characters of s
RECURSIVE TokenLen(_)
TokenLen(s) ==
    IF Len(s) = 0 \/ IsSpace(CharAt(s, 1)) THEN 0
    ELSE 1 + TokenLen(SubSeq(s, 2, Len(s)))

\* String.prototype.split(/\s+/): the pieces between maximal runs of
\* whitespace; a leading or trailing run leaves an empty piece
RECURSIVE Split(_)
Split(s) ==
    LET n == TokenLen(s)
        rest == SubSeq(s, n + 1, Len(s))
    IN  IF Len(rest) = 0 THEN <<SubSeq(s, 1, n)>>
        ELSE <<SubSeq(s, 1, n)>> \o Split(TrimStart(rest))

\* Array.prototype.slice(k) (k counted from 0)
Slice(a, k) == SubSeq(a, k + 1, Len(a))

RECURSIVE Join(_, _)
\* Array.prototype.join(sep)
Join(a, sep) ==
    IF Len(a) = 0 THEN ""
    ELSE IF Len(a) = 1 THEN a[1]
    ELSE a[1] \o sep \o Join(Tail(a), sep)


\* position of the first occurrence of character c in s, 0 when absent
RECURSIVE IndexOfFrom(_, _, _)
IndexOfFrom(s, c, i) ==
    IF i > Len(s) THEN 0
    ELSE IF CharAt(s, i) = c THEN i
    ELSE IndexOfFrom(s, c, i + 1)

IndexOf(s, c) == IndexOfFrom(s, c, 1)

\* String.prototype.includes
Includes(s, sub) ==
    \E i \in 1..(Len(s) - Len(sub) + 1) : SubSeq(s, i, i + Len(sub) - 1) = sub

\* String.prototype.split(c) for a one-character separator
RECURSIVE SplitOn(_, _)
SplitOn(s, c) ==
    LET i == IndexOf(s, c)
    IN  IF i = 0 THEN <<s>>
        ELSE <<SubSeq(s, 1, i - 1)>> \o SplitOn(SubSeq(s, i + 1, Len(s)), c)

\* Array.prototype.filter(p => p)
NonEmpty(a) == SelectSeq(a, LAMBDA p : p # "")

RECURSIVE StripSlashes(_)
StripSlashes(s) ==
    IF Len(s) > 0 /\ CharAt(s, 1) = "/" THEN StripSlashes(SubSeq(s, 2, Len(s)))
    ELSE s

\* ------------------------------------------------------------ the URL type

Null == [null |-> TRUE]
Undefined == [undefined |-> TRUE]
NoError == [none |-> TRUE]

SchemeChars == {LowerChars[i] : i \in 1..26} \cup {"+", "-", "."}
SpecialSchemes == {"http", "https", "ftp", "ws", "wss"}

\* new URL(text): the parsed URL, or NoError replaced by the TypeError the
\* constructor throws.  Only the parts the panel reads are kept: protocol,
\* hostname and pathname.
ParseURL(text) ==
    LET colon  == IndexOf(text, ":")
        scheme == ToLowerCase(SubSeq(text, 1, colon - 1))
        rest   == SubSeq(text, colon + 1, Len(text))
        invalid == [ok |-> FALSE, error |-> "Invalid URL"]
    IN  IF colon <= 1 THEN invalid
        ELSE IF \E i \in 1..Len(scheme) : CharAt(scheme, i) \notin SchemeChars
        THEN invalid
        ELSE IF scheme \in SpecialSchemes \/ SubSeq(rest, 1, 2) = "//"
        THEN LET auth  == StripSlashes(rest)
                 slash == IndexOf(auth, "/")
                 host  == IF slash = 0 THEN auth ELSE SubSeq(auth, 1, slash - 1)
                 path  == IF slash = 0 THEN "/" ELSE SubSeq(auth, slash, Len(auth))
             IN  IF host = "" \/ Includes(host, " ") THEN invalid
                 ELSE [ok |-> TRUE,
                       url |-> [protocol |-> scheme \o ":",
                                hostname |-> ToLowerCase(host),
                                pathname |-> path]]
        ELSE [ok |-> TRUE,
              url |-> [protocol |-> scheme \o ":", hostname |-> "", pathname |-> rest]]


\* ------------------------------------------------------------------- state

VARIABLES
    commandInput,    \* this.commandInput.value, the edit buffer
    commandHistory,  \* this.commandHistory, most recent first
    historyIndex,    \* this.historyIndex, -1 when not browsing
    targetUrl,       \* this.targetUrl.value, the text of the URL field
    validatedUrl,    \* this.validatedUrl, Null or a parsed URL
    status,          \* the 'active' class of the three status indicators
    output,          \* the children of this.output, oldest first
    evals,           \* inspectedWindow.eval calls whose callback has not run
    tasks,           \* handler invocations suspended at an await
    msgs,            \* messages passed to chrome.runtime.sendMessage, in order
    fetched,         \* URLs passed to fetch, in order
    lastEvent,       \* the event handled by the last step
    submitted,       \* the commands submitted so far, oldest first
    ups,             \* ArrowUp presses in a row since the last submission
    delivered,       \* how many of msgs the background worker has handled
    badge            \* the badge text: the default one and the inspected tab's

vars == <<commandInput, commandHistory, historyIndex, targetUrl, validatedUrl,
          status, output, evals, tasks, msgs, fetched, lastEvent, submitted, ups,
          delivered, badge>>

\* The part of the panel the command handlers write, threaded through them,
\* with what the step being taken has done so far: calls, the top-level
\* handlers parseCommand has called, and flips, the changes of the 'active'
\* class setStatusIndicator has made, both in order.
This == [status |-> status, output |-> output, evals |-> evals,
         tasks |-> tasks, msgs |-> msgs, fetched |-> fetched,
         calls |-> <<>>, flips |-> <<>>]

\* How a handler invocation leaves its caller: returned, thrown, or suspended
\* at an await with the rest of its body still to run.
Return(this) == [this |-> this, err |-> NoError, done |-> TRUE]
Throw(this, message) == [this |-> this, err |-> [message |-> message], done |-> TRUE]
Await(this) == [this |-> this, err |-> NoError, done |-> FALSE]

appendOutput(this, text, type) ==
    [this EXCEPT !.output = Append(@, [text |-> text, type |-> type])]

IndicatorTypes == {"snippet", "dom", "scraping"}

setStatusIndicator(this, type, active) ==
    IF type \in IndicatorTypes
    THEN [this EXCEPT !.status[type] = active,
                      !.flips = IF this.status[type] = active THEN @
                                ELSE Append(@, [type |-> type, active |-> active])]
    ELSE this

sendMessage(this, type) == [this EXCEPT !.msgs = Append(@, type)]

\* The message inspectedWindow.eval throws with when the call itself fails.
TransportError == "Extension context invalidated."

\* executeInPage lighting the script-execution indicator for every call of
\* the transport, whichever handler makes it
executeInPage_Flagged(this, code, callback, throws) ==
    LET flagged == setStatusIndicator(this, "snippet", TRUE)
        started == sendMessage(flagged, "EXECUTION_START")
    IN  IF throws THEN Throw(started, TransportError)
        ELSE Return([started EXCEPT
                        !.evals = Append(@, [code |-> code, callback |-> callback])])

\* executeInPage(code, callback): throws is whether inspectedWindow.eval
\* throws instead of accepting the call.
executeInPage(this, code, callback, throws) ==
    LET started == sendMessage(this, "EXECUTION_START")
    IN  IF throws THEN Throw(started, TransportError)
        ELSE Return([started EXCEPT
                        !.evals = Append(@, [code |-> code, callback |-> callback])])

WrapCode(code) ==
    "(() => { try { const result = " \o code
    \o "; return { success: true, result }; } catch (error) { return { success: false, error: error.message }; } })()"

\* handleSnippetExecution without the test for an empty script
handleSnippetExecution_NoCheck(this, code, throws) ==
    LET active == setStatusIndicator(this, "snippet", TRUE)
        r == executeInPage(active, WrapCode(code), "snippet", throws)
    IN  [r EXCEPT !.this = setStatusIndicator(r.this, "snippet", FALSE)]

handleSnippetExecution(this, code, throws) ==
    IF code = ""
    THEN Return(appendOutput(this, "ERROR: No code provided", "error"))
    ELSE LET active == setStatusIndicator(this, "snippet", TRUE)
             r == executeInPage(active, WrapCode(code), "snippet", throws)
         IN  [r EXCEPT !.this = setStatusIndicator(r.this, "snippet", FALSE)]

\* String.prototype.replace(/'/g, "\\'")
RECURSIVE EscapeQuotes(_)
EscapeQuotes(s) ==
    IF Len(s) = 0 THEN s
    ELSE (IF CharAt(s, 1) = "'" THEN "\\'" ELSE CharAt(s, 1))
         \o EscapeQuotes(SubSeq(s, 2, Len(s)))

domSetText(this, args, throws) ==
    IF Len(args) < 2
    THEN Return(appendOutput(this, "ERROR: Usage: dom set <selector> <text>", "error"))
    ELSE LET selector == args[1]
             text == Join(Slice(args, 1), " ")
             code == "(() => { const elements = document.querySelectorAll('"
                     \o EscapeQuotes(selector)
                     \o "'); elements.forEach(el => el.textContent = '"
                     \o EscapeQuotes(text)
                     \o "'); return { count: elements.length }; })()"
         IN  executeInPage(this, code, "domSetText", throws)

domSetHtml(this, args, throws) ==
    IF Len(args) < 2
    THEN Return(appendOutput(this, "ERROR: Usage: dom html <selector> <html>", "error"))
    ELSE LET selector == args[1]
             html == Join(Slice(args, 1), " ")
             code == "(() => { const elements = document.querySelectorAll('"
                     \o EscapeQuotes(selector)
                     \o "'); elements.forEach(el => el.innerHTML = '"
                     \o EscapeQuotes(html)
                     \o "'); return { count: elements.length }; })()"
         IN  executeInPage(this, code, "domSetHtml", throws)

\* domSetAttribute demanding a selector and an attribute name only
domSetAttribute_TwoArgs(this, args, throws) ==
    IF Len(args) < 2
    THEN Return(appendOutput(this,
                    "ERROR: Usage: dom attr <selector> <attribute> <value>", "error"))
    ELSE LET selector == args[1]
             attr == args[2]
             value == Join(Slice(args, 2), " ")
             code == "(() => { const elements = document.querySelectorAll('"
                     \o EscapeQuotes(selector)
                     \o "'); elements.forEach(el => el.setAttribute('"
                     \o EscapeQuotes(attr) \o "', '" \o EscapeQuotes(value)
                     \o "')); return { count: elements.length }; })()"
         IN  executeInPage(this, code, "domSetAttribute", throws)

domSetAttribute(this, args, throws) ==
    IF Len(args) < 3
    THEN Return(appendOutput(this,
                    "ERROR: Usage: dom attr <selector> <attribute> <value>", "error"))
    ELSE LET selector == args[1]
             attr == args[2]
             value == Join(Slice(args, 2), " ")
             code == "(() => { const elements = document.querySelectorAll('"
                     \o EscapeQuotes(selector)
                     \o "'); elements.forEach(el => el.setAttribute('"
                     \o EscapeQuotes(attr) \o "', '" \o EscapeQuotes(value)
                     \o "')); return { count: elements.length }; })()"
         IN  executeInPage(this, code, "domSetAttribute", throws)

domReplaceText(this, args, throws) ==
    IF Len(args) < 2
    THEN Return(appendOutput(this,
                    "ERROR: Usage: dom replace <old text> <new text>", "error"))
    ELSE LET oldText == args[1]
             newText == Join(Slice(args, 1), " ")
             code == "(() => { let count = 0; walk(document.body, node => { if (node.nodeValue && node.nodeValue.includes('"
                     \o EscapeQuotes(oldText)
                     \o "')) nodesToReplace.push(node); }); nodesToReplace.forEach(node => { node.nodeValue = node.nodeValue.replace(new RegExp('"
                     \o EscapeQuotes(oldText) \o "', 'g'), '" \o EscapeQuotes(newText)
                     \o "'); count++; }); return { count }; })()"
         IN  executeInPage(this, code, "domReplaceText", throws)

\* args[0]?.toLowerCase()
FirstLower(args) == IF Len(args) = 0 THEN Undefined ELSE [s |-> ToLowerCase(args[1])]

handleDomCommand(this, args, throws) ==
    LET active == setStatusIndicator(this, "dom", TRUE)
        action == FirstLower(args)
        r == CASE action = [s |-> "set"]     -> domSetText(active, Slice(args, 1), throws)
               [] action = [s |-> "html"]    -> domSetHtml(active, Slice(args, 1), throws)
               [] action = [s |-> "attr"]    -> domSetAttribute(active, Slice(args, 1), throws)
               [] action = [s |-> "replace"] -> domReplaceText(active, Slice(args, 1), throws)
               [] OTHER -> Return(appendOutput(active,
                               "ERROR: Unknown DOM action. Use: set, html, attr, or replace",
                               "error"))
    IN  [r EXCEPT !.this = setStatusIndicator(r.this, "dom", FALSE)]


\* ---------------------------------------------------------------- scraping

RawUrl(owner, repo, branch, path) ==
    "https://raw.githubusercontent.com/" \o owner \o "/" \o repo \o "/"
    \o branch \o "/" \o path

\* fetch(url) followed by await: the request is issued and the invocation is
\* suspended with `task` naming where it resumes.
fetch(this, url, task) ==
    [this EXCEPT !.fetched = Append(@, url), !.tasks = Append(@, task)]

fetchGitHubFile(this, owner, repo, filePath) ==
    Await(fetch(this, RawUrl(owner, repo, "main", filePath),
                [fn |-> "fetchGitHubFile", at |-> "response",
                 owner |-> owner, repo |-> repo, path |-> filePath, i |-> 0]))

commonFiles == <<"README.md", "package.json", "manifest.json", "SECURITY.md", "LICENSE">>

fetchGitHubTree(this, owner, repo) ==
    LET info == appendOutput(this, "INFO: Tree view requires GitHub API access", "warning")
        attempting == appendOutput(info, "Attempting to fetch common files...", "success")
    IN  Await(fetch(attempting, RawUrl(owner, repo, "main", commonFiles[1]),
                    [fn |-> "fetchGitHubTree", at |-> "response",
                     owner |-> owner, repo |-> repo, path |-> commonFiles[1], i |-> 1]))

scrapeGitHub(this, args, url) ==
    LET action == FirstLower(args)
        pathParts == NonEmpty(SplitOn(url.pathname, "/"))
    IN  IF ~Includes(url.hostname, "github.com") \/ Len(pathParts) < 2
        THEN Return(appendOutput(this, "ERROR: Invalid GitHub repository URL", "error"))
        ELSE LET owner == pathParts[1]
                 repo == pathParts[2]
                 scraping == appendOutput(this,
                                 "Scraping GitHub: " \o owner \o "/" \o repo, "success")
             IN  CASE action = [s |-> "readme"] ->
                        fetchGitHubFile(scraping, owner, repo, "README.md")
                   [] action = [s |-> "tree"] ->
                        fetchGitHubTree(scraping, owner, repo)
                   [] action = [s |-> "file"] ->
                        LET filePath == Join(Slice(args, 1), " ")
                        IN  IF filePath = ""
                            THEN Return(appendOutput(scraping,
                                     "ERROR: Please specify a file path", "error"))
                            ELSE fetchGitHubFile(scraping, owner, repo, filePath)
                   [] OTHER ->
                        Return(appendOutput(scraping,
                            "ERROR: Unknown GitHub action. Use: readme, tree, or file <path>",
                            "error"))

scrapePageText(this, throws) ==
    executeInPage(this,
        "(() => { const body = document.body; const text = body.innerText || body.textContent; return { text: text.substring(0, 5000) }; })()",
        "scrapePageText", throws)

scrapePageLinks(this, throws) ==
    executeInPage(this,
        "(() => { const links = Array.from(document.querySelectorAll('a[href]')); return { count: links.length, links: links.slice(0, 100).map(a => ({ text: a.textContent.trim().substring(0, 50), href: a.href })) }; })()",
        "scrapePageLinks", throws)

scrapePageMeta(this, throws) ==
    executeInPage(this,
        "(() => { const metas = Array.from(document.querySelectorAll('meta')); return { title: document.title, metas: metas.map(m => ({ name: m.getAttribute('name') || m.getAttribute('property'), content: m.getAttribute('content') })).filter(m => m.name) }; })()",
        "scrapePageMeta", throws)

scrapePage(this, args, throws) ==
    LET action == FirstLower(args)
    IN  CASE action = [s |-> "text"]  -> scrapePageText(this, throws)
          [] action = [s |-> "links"] -> scrapePageLinks(this, throws)
          [] action = [s |-> "meta"]  -> scrapePageMeta(this, throws)
          [] OTHER -> Return(appendOutput(this,
                          "ERROR: Unknown page action. Use: text, links, or meta", "error"))

\* handleScrapeCommand demanding a target of the github sub-mode only
handleScrapeCommand_PageUnchecked(this, args, url, throws) ==
    IF url = Null /\ FirstLower(args) # [s |-> "page"]
    THEN Return(appendOutput(this, "ERROR: Please validate a Target URL first", "error"))
    ELSE LET active == setStatusIndicator(this, "scraping", TRUE)
             type == FirstLower(args)
             r == CASE type = [s |-> "github"] -> scrapeGitHub(active, Slice(args, 1), url)
                    [] type = [s |-> "page"]   -> scrapePage(active, Slice(args, 1), throws)
                    [] OTHER -> Return(appendOutput(active,
                                    "ERROR: Unknown scrape type. Use: github or page", "error"))
         IN  IF r.done
             THEN [r EXCEPT !.this = setStatusIndicator(r.this, "scraping", FALSE)]
             ELSE r

\* url is this.validatedUrl when the command is dispatched.  The finally
\* block runs when the body has returned or thrown, not while it is suspended.
handleScrapeCommand(this, args, url, throws) ==
    IF url = Null
    THEN Return(appendOutput(this, "ERROR: Please validate a Target URL first", "error"))
    ELSE LET active == setStatusIndicator(this, "scraping", TRUE)
             type == FirstLower(args)
             r == CASE type = [s |-> "github"] -> scrapeGitHub(active, Slice(args, 1), url)
                    [] type = [s |-> "page"]   -> scrapePage(active, Slice(args, 1), throws)
                    [] OTHER -> Return(appendOutput(active,
                                    "ERROR: Unknown scrape type. Use: github or page", "error"))
         IN  IF r.done
             THEN [r EXCEPT !.this = setStatusIndicator(r.this, "scraping", FALSE)]
             ELSE r

\* ------------------------------------------------------------- dispatching

HelpText == "AVAILABLE COMMANDS ... ETHICAL USAGE GUIDELINES ..."

showHelp(this) == appendOutput(this, HelpText, "success")

clearTerminal(this) ==
    appendOutput([this EXCEPT !.output = <<>>], "Terminal cleared.", "success")

\* a top-level handler is entered with its argument
Call(this, handler, argument) ==
    [this EXCEPT !.calls = Append(@, [handler |-> handler, argument |-> argument])]

\* parseCommand with the break of case 'dom' missing: control falls through
\* into the case of eval, exec and run
parseCommand_FallThrough(this, command, url, throws) ==
    LET parts == Split(command)
        mainCommand == ToLowerCase(parts[1])
        code == Trim(SubSeq(command, Len(mainCommand) + 1, Len(command)))
        r == CASE mainCommand = "help"   ->
                      Return(showHelp(Call(this, "showHelp", <<>>)))
               [] mainCommand = "clear"  ->
                      Return(clearTerminal(Call(this, "clearTerminal", <<>>)))
               [] mainCommand = "scrape" ->
                      handleScrapeCommand(
                          Call(this, "handleScrapeCommand", Slice(parts, 1)),
                          Slice(parts, 1), url, throws)
               [] mainCommand = "dom"    ->
                      LET d == handleDomCommand(
                                   Call(this, "handleDomCommand", Slice(parts, 1)),
                                   Slice(parts, 1), throws)
                      IN  IF d.err # NoError THEN d
                          ELSE handleSnippetExecution(
                                   Call(d.this, "handleSnippetExecution", code),
                                   code, throws)
               [] mainCommand \in {"eval", "exec", "run"} ->
                      handleSnippetExecution(
                          Call(this, "handleSnippetExecution", code), code, throws)
               [] OTHER ->
                      handleSnippetExecution(
                          Call(this, "handleSnippetExecution", command), command, throws)
    IN  IF r.err # NoError
        THEN appendOutput(r.this, "ERROR: " \o r.err.message, "error")
        ELSE r.this

\* parseCommand comparing the first token as typed, without toLowerCase
parseCommand_CaseSensitive(this, command, url, throws) ==
    LET parts == Split(command)
        mainCommand == parts[1]
        r == CASE mainCommand = "help"   ->
                      Return(showHelp(Call(this, "showHelp", <<>>)))
               [] mainCommand = "clear"  ->
                      Return(clearTerminal(Call(this, "clearTerminal", <<>>)))
               [] mainCommand = "scrape" ->
                      handleScrapeCommand(
                          Call(this, "handleScrapeCommand", Slice(parts, 1)),
                          Slice(parts, 1), url, throws)
               [] mainCommand = "dom"    ->
                      handleDomCommand(
                          Call(this, "handleDomCommand", Slice(parts, 1)),
                          Slice(parts, 1), throws)
               [] mainCommand \in {"eval", "exec", "run"} ->
                      LET code == Trim(SubSeq(command, Len(mainCommand) + 1,
                                              Len(command)))
                      IN  handleSnippetExecution(
                              Call(this, "handleSnippetExecution", code), code, throws)
               [] OTHER ->
                      handleSnippetExecution(
                          Call(this, "handleSnippetExecution", command), command, throws)
    IN  IF r.err # NoError
        THEN appendOutput(r.this, "ERROR: " \o r.err.message, "error")
        ELSE r.this

\* parseCommand(command) up to its first suspension; an error thrown by the
\* handler is caught and rendered.
parseCommand(this, command, url, throws) ==
    LET parts == Split(command)
        mainCommand == ToLowerCase(parts[1])
        r == CASE mainCommand = "help"   ->
                      Return(showHelp(Call(this, "showHelp", <<>>)))
               [] mainCommand = "clear"  ->
                      Return(clearTerminal(Call(this, "clearTerminal", <<>>)))
               [] mainCommand = "scrape" ->
                      handleScrapeCommand(
                          Call(this, "handleScrapeCommand", Slice(parts, 1)),
                          Slice(parts, 1), url, throws)
               [] mainCommand = "dom"    ->
                      handleDomCommand(
                          Call(this, "handleDomCommand", Slice(parts, 1)),
                          Slice(parts, 1), throws)
               [] mainCommand \in {"eval", "exec", "run"} ->
                      LET code == Trim(SubSeq(command, Len(mainCommand) + 1,
                                              Len(command)))
                      IN  handleSnippetExecution(
                              Call(this, "handleSnippetExecution", code), code, throws)
               [] OTHER ->
                      handleSnippetExecution(
                          Call(this, "handleSnippetExecution", command), command, throws)
    IN  IF r.err # NoError
        THEN appendOutput(r.this, "ERROR: " \o r.err.message, "error")
        ELSE r.this


\* ------------------------------------------------------ the command input

Min(a, b) == IF a < b THEN a ELSE b

Commit(this) ==
    /\ status' = this.status
    /\ output' = this.output
    /\ evals' = this.evals
    /\ tasks' = this.tasks
    /\ msgs' = this.msgs
    /\ fetched' = this.fetched

\* The user edits the command line.
TypeCommand(line) ==
    /\ commandInput' = line
    /\ lastEvent' = [type |-> "input"]
    /\ ups' = -1
    /\ UNCHANGED <<commandHistory, historyIndex, targetUrl, validatedUrl, status,
                   output, evals, tasks, msgs, fetched, submitted,
                   delivered, badge>>

\* Array read as JavaScript reads it: undefined past the end
At(a, i) == IF i \in 1..Len(a) THEN a[i] ELSE "undefined"

\* navigateHistory with the upper bound tested with <= instead of <
navigateHistory_OffByOne(direction) ==
    /\ lastEvent' = [type |-> IF direction = "up" THEN "ArrowUp" ELSE "ArrowDown"]
    /\ ups' = (IF direction = "up" /\ ups >= 0 THEN Min(ups + 1, MaxHistory + 1) ELSE -1)
    /\ IF Len(commandHistory) = 0
       THEN UNCHANGED <<historyIndex, commandInput>>
       ELSE IF direction = "up"
       THEN IF historyIndex <= Len(commandHistory) - 1
            THEN /\ historyIndex' = historyIndex + 1
                 /\ commandInput' = At(commandHistory, historyIndex' + 1)
            ELSE UNCHANGED <<historyIndex, commandInput>>
       ELSE IF historyIndex > 0
            THEN /\ historyIndex' = historyIndex - 1
                 /\ commandInput' = commandHistory[historyIndex' + 1]
            ELSE IF historyIndex = 0
            THEN /\ historyIndex' = -1
                 /\ commandInput' = ""
            ELSE UNCHANGED <<historyIndex, commandInput>>
    /\ UNCHANGED <<commandHistory, targetUrl, validatedUrl, status, output, evals,
                   tasks, msgs, fetched, submitted,
                   delivered, badge>>

\* navigateHistory that leaves the recalled text in place when "down" moves
\* past the newest entry
navigateHistory_KeepText(direction) ==
    /\ lastEvent' = [type |-> IF direction = "up" THEN "ArrowUp" ELSE "ArrowDown"]
    /\ ups' = (IF direction = "up" /\ ups >= 0 THEN Min(ups + 1, MaxHistory + 1) ELSE -1)
    /\ IF Len(commandHistory) = 0
       THEN UNCHANGED <<historyIndex, commandInput>>
       ELSE IF direction = "up"
       THEN IF historyIndex < Len(commandHistory) - 1
            THEN /\ historyIndex' = historyIndex + 1
                 /\ commandInput' = commandHistory[historyIndex' + 1]
            ELSE UNCHANGED <<historyIndex, commandInput>>
       ELSE IF historyIndex > 0
            THEN /\ historyIndex' = historyIndex - 1
                 /\ commandInput' = commandHistory[historyIndex' + 1]
            ELSE IF historyIndex = 0
            THEN /\ historyIndex' = -1
                 /\ UNCHANGED commandInput
            ELSE UNCHANGED <<historyIndex, commandInput>>
    /\ UNCHANGED <<commandHistory, targetUrl, validatedUrl, status, output, evals,
                   tasks, msgs, fetched, submitted,
                   delivered, badge>>

navigateHistory(direction) ==
    /\ lastEvent' = [type |-> IF direction = "up" THEN "ArrowUp" ELSE "ArrowDown"]
    /\ ups' = (IF direction = "up" /\ ups >= 0 THEN Min(ups + 1, MaxHistory + 1) ELSE -1)
    /\ IF Len(commandHistory) = 0
       THEN UNCHANGED <<historyIndex, commandInput>>
       ELSE IF direction = "up"
       THEN IF historyIndex < Len(commandHistory) - 1
            THEN /\ historyIndex' = historyIndex + 1
                 /\ commandInput' = commandHistory[historyIndex' + 1]
            ELSE UNCHANGED <<historyIndex, commandInput>>
       ELSE IF historyIndex > 0
            THEN /\ historyIndex' = historyIndex - 1
                 /\ commandInput' = commandHistory[historyIndex' + 1]
            ELSE IF historyIndex = 0
            THEN /\ historyIndex' = -1
                 /\ commandInput' = ""
            ELSE UNCHANGED <<historyIndex, commandInput>>
    /\ UNCHANGED <<commandHistory, targetUrl, validatedUrl, status, output, evals,
                   tasks, msgs, fetched, submitted,
                   delivered, badge>>

ArrowUp == navigateHistory("up")

ArrowDown == navigateHistory("down")

Prompt == "researcher@browser:~$ "

\* executeCommand with push in place of unshift: the history oldest first
executeCommand_Push(throws) ==
    LET command == Trim(commandInput)
        done == parseCommand(appendOutput(This, Prompt \o command, "command-line"),
                             command, validatedUrl, throws)
    IN  /\ lastEvent' = [type |-> "Enter", command |-> command, throws |-> throws,
                          calls |-> IF command = "" THEN <<>> ELSE done.calls,
                          flips |-> IF command = "" THEN <<>> ELSE done.flips]
        /\ IF command = ""
           THEN UNCHANGED <<commandInput, commandHistory, historyIndex, status, output,
                            evals, tasks, msgs, fetched, submitted, ups>>
           ELSE /\ commandHistory' = Append(commandHistory, command)
                /\ historyIndex' = -1
                /\ commandInput' = ""
                /\ submitted' = Append(submitted, command)
                /\ ups' = 0
                /\ Commit(done)
        /\ UNCHANGED <<targetUrl, validatedUrl,
                   delivered, badge>>

\* executeCommand that forgets the validated target when the terminal is cleared
executeCommand_ResetsTarget(throws) ==
    LET command == Trim(commandInput)
        done == parseCommand(appendOutput(This, Prompt \o command, "command-line"),
                             command, validatedUrl, throws)
    IN  /\ lastEvent' = [type |-> "Enter", command |-> command, throws |-> throws,
                          calls |-> IF command = "" THEN <<>> ELSE done.calls,
                          flips |-> IF command = "" THEN <<>> ELSE done.flips]
        /\ IF command = ""
           THEN UNCHANGED <<commandInput, commandHistory, historyIndex, status, output,
                            evals, tasks, msgs, fetched, submitted, ups, validatedUrl>>
           ELSE /\ commandHistory' = <<command>> \o commandHistory
                /\ historyIndex' = -1
                /\ commandInput' = ""
                /\ submitted' = Append(submitted, command)
                /\ ups' = 0
                /\ validatedUrl' = (IF ToLowerCase(Split(command)[1]) = "clear"
                                    THEN Null ELSE validatedUrl)
                /\ Commit(done)
        /\ UNCHANGED <<targetUrl, delivered, badge>>

\* executeCommand that ignores Enter while an earlier command is suspended
executeCommand_Busy(throws) ==
    LET command == Trim(commandInput)
        done == parseCommand(appendOutput(This, Prompt \o command, "command-line"),
                             command, validatedUrl, throws)
        busy == tasks # <<>> \/ evals # <<>>
    IN  /\ lastEvent' = [type |-> "Enter", command |-> command, throws |-> throws,
                          calls |-> IF command = "" \/ busy THEN <<>> ELSE done.calls,
                          flips |-> IF command = "" \/ busy THEN <<>> ELSE done.flips]
        /\ IF command = "" \/ busy
           THEN UNCHANGED <<commandInput, commandHistory, historyIndex, status, output,
                            evals, tasks, msgs, fetched, submitted, ups>>
           ELSE /\ commandHistory' = <<command>> \o commandHistory
                /\ historyIndex' = -1
                /\ commandInput' = ""
                /\ submitted' = Append(submitted, command)
                /\ ups' = 0
                /\ Commit(done)
        /\ UNCHANGED <<targetUrl, validatedUrl, delivered, badge>>

\* Enter: executeCommand up to the first suspension of the handler it
\* dispatches to; throws is whether the transport call of this command throws.
executeCommand(throws) ==
    LET command == Trim(commandInput)
        done == parseCommand(appendOutput(This, Prompt \o command, "command-line"),
                             command, validatedUrl, throws)
    IN  /\ lastEvent' = [type |-> "Enter", command |-> command, throws |-> throws,
                          calls |-> IF command = "" THEN <<>> ELSE done.calls,
                          flips |-> IF command = "" THEN <<>> ELSE done.flips]
        /\ IF command = ""
           THEN UNCHANGED <<commandInput, commandHistory, historyIndex, status, output,
                            evals, tasks, msgs, fetched, submitted, ups>>
           ELSE /\ commandHistory' = <<command>> \o commandHistory
                /\ historyIndex' = -1
                /\ commandInput' = ""
                /\ submitted' = Append(submitted, command)
                /\ ups' = 0
                /\ Commit(done)
        /\ UNCHANGED <<targetUrl, validatedUrl,
                   delivered, badge>>

Enter == \E throws \in BOOLEAN : executeCommand(throws)


\* -------------------------------------------------------- the target URL

\* The user edits the Target URL field.
TypeTarget(text) ==
    /\ targetUrl' = text
    /\ lastEvent' = [type |-> "targetInput"]
    /\ UNCHANGED <<commandInput, commandHistory, historyIndex, validatedUrl, status,
                   output, evals, tasks, msgs, fetched, submitted, ups,
                   delivered, badge>>

AllowedProtocols == {"http:", "https:"}

\* validateTargetUrl without the protocol test
validateTargetUrl_AnyProtocol ==
    LET url == Trim(targetUrl)
        parsed == ParseURL(url)
    IN  /\ lastEvent' = [type |-> "validate"]
        /\ IF url = ""
           THEN /\ output' = Append(output,
                       [text |-> "ERROR: Please enter a URL", type |-> "error"])
                /\ UNCHANGED validatedUrl
           ELSE IF parsed.ok
           THEN /\ validatedUrl' = parsed.url
                /\ output' = Append(output,
                       [text |-> "+ Target URL validated: " \o url, type |-> "success"])
           ELSE /\ validatedUrl' = Null
                /\ output' = Append(output,
                       [text |-> "ERROR: Invalid URL - " \o parsed.error, type |-> "error"])
        /\ UNCHANGED <<commandInput, commandHistory, historyIndex, targetUrl, status,
                       evals, tasks, msgs, fetched, submitted, ups,
                   delivered, badge>>

\* validateTargetUrl treating blank input as any other invalid text
validateTargetUrl_ClearsOnEmpty ==
    LET url == Trim(targetUrl)
        parsed == ParseURL(url)
    IN  /\ lastEvent' = [type |-> "validate"]
        /\ IF url = ""
           THEN /\ output' = Append(output,
                       [text |-> "ERROR: Please enter a URL", type |-> "error"])
                /\ validatedUrl' = Null
           ELSE IF parsed.ok /\ parsed.url.protocol \in AllowedProtocols
           THEN /\ validatedUrl' = parsed.url
                /\ output' = Append(output,
                       [text |-> "+ Target URL validated: " \o url, type |-> "success"])
           ELSE /\ validatedUrl' = Null
                /\ output' = Append(output,
                       [text |-> "ERROR: Invalid URL - "
                                 \o (IF parsed.ok
                                     THEN "Only HTTP and HTTPS protocols are supported"
                                     ELSE parsed.error),
                        type |-> "error"])
        /\ UNCHANGED <<commandInput, commandHistory, historyIndex, targetUrl, status,
                       evals, tasks, msgs, fetched, submitted, ups, delivered, badge>>

\* The check mark of the success lines is written "+".
validateTargetUrl ==
    LET url == Trim(targetUrl)
        parsed == ParseURL(url)
    IN  /\ lastEvent' = [type |-> "validate"]
        /\ IF url = ""
           THEN /\ output' = Append(output,
                       [text |-> "ERROR: Please enter a URL", type |-> "error"])
                /\ UNCHANGED validatedUrl
           ELSE IF parsed.ok /\ parsed.url.protocol \in AllowedProtocols
           THEN /\ validatedUrl' = parsed.url
                /\ output' = Append(output,
                       [text |-> "+ Target URL validated: " \o url, type |-> "success"])
           ELSE /\ validatedUrl' = Null
                /\ output' = Append(output,
                       [text |-> "ERROR: Invalid URL - "
                                 \o (IF parsed.ok
                                     THEN "Only HTTP and HTTPS protocols are supported"
                                     ELSE parsed.error),
                        type |-> "error"])
        /\ UNCHANGED <<commandInput, commandHistory, historyIndex, targetUrl, status,
                       evals, tasks, msgs, fetched, submitted, ups,
                   delivered, badge>>

\* ------------------------------------------------- the transport callback

\* `${value}` of what the transport hands back
TemplateString(value) == IF value = Undefined THEN "undefined" ELSE "[object Object]"

\* JSON.stringify(value, null, 2) of the values the model evaluates to
JSONStringify(value) ==
    CASE value.t = "null"   -> "null"
      [] value.t = "number" -> ToString(value.v)
      [] value.t = "string" -> "\"" \o value.v \o "\""

RECURSIVE appendEach(_, _)
\* texts.forEach(text => this.appendOutput(text, 'success'))
appendEach(this, texts) ==
    IF Len(texts) = 0 THEN this
    ELSE appendEach(appendOutput(this, texts[1], "success"), Tail(texts))

\* the callback of handleSnippetExecution testing the caught error first
snippetCallback_ErrorFirst(this, result, isException) ==
    IF result # Undefined /\ ~result.success
    THEN appendOutput(this, "ERROR: " \o result.error, "error")
    ELSE IF isException
    THEN appendOutput(this, "EXCEPTION: " \o TemplateString(result), "error")
    ELSE IF result # Undefined /\ result.result # Undefined
    THEN appendOutput(this, JSONStringify(result.result), "success")
    ELSE appendOutput(this, "undefined", "success")

snippetCallback(this, result, isException) ==
    IF isException
    THEN appendOutput(this, "EXCEPTION: " \o TemplateString(result), "error")
    ELSE IF result # Undefined /\ ~result.success
    THEN appendOutput(this, "ERROR: " \o result.error, "error")
    ELSE IF result # Undefined /\ result.result # Undefined
    THEN appendOutput(this, JSONStringify(result.result), "success")
    ELSE appendOutput(this, "undefined", "success")

domCallback(this, result, updated, warning) ==
    IF result # Undefined /\ result.count > 0
    THEN appendOutput(this, updated[1] \o ToString(result.count) \o updated[2], "success")
    ELSE appendOutput(this, warning, "warning")

scrapePageTextCallback(this, result) ==
    IF result # Undefined /\ result.text # ""
    THEN appendOutput(appendOutput(appendOutput(this,
             "\n--- Page Text ---", "success"), result.text, "success"),
             "--- End ---\n", "success")
    ELSE this

scrapePageLinksCallback(this, result) ==
    IF result # Undefined
    THEN appendEach(appendOutput(this,
             "\nFound " \o ToString(result.count) \o " links (showing first 100):",
             "success"),
             [i \in 1..Len(result.links) |->
                 "  " \o result.links[i].text \o " -> " \o result.links[i].href])
    ELSE this

\* result.metas.forEach throws a TypeError when the object handed back has
\* no metas
scrapePageMetaCallback(this, result) ==
    IF result # Undefined
    THEN LET titled == appendOutput(appendOutput(this,
                           "\nTitle: " \o result.title, "success"),
                           "\nMeta Tags:", "success")
         IN  IF "metas" \in DOMAIN result
             THEN Return(appendEach(titled,
                      [i \in 1..Len(result.metas) |->
                          "  " \o result.metas[i].name \o ": "
                          \o result.metas[i].content]))
             ELSE Throw(titled,
                      "Cannot read properties of undefined (reading 'forEach')")
    ELSE Return(this)

\* The callback the pending evaluation was given, applied to the outcome: it
\* returns, or throws out of the function executeInPage passed to the
\* transport.
callback(this, name, result, isException) ==
    CASE name = "snippet" -> Return(snippetCallback(this, result, isException))
      [] name = "domSetText" ->
            Return(domCallback(this, result, <<"+ Updated ", " element(s)">>,
                               "WARNING: No elements matched selector"))
      [] name = "domSetHtml" ->
            Return(domCallback(this, result, <<"+ Updated HTML of ", " element(s)">>,
                               "WARNING: No elements matched selector"))
      [] name = "domSetAttribute" ->
            Return(domCallback(this, result,
                               <<"+ Updated attribute of ", " element(s)">>,
                               "WARNING: No elements matched selector"))
      [] name = "domReplaceText" ->
            Return(domCallback(this, result, <<"+ Replaced text in ", " location(s)">>,
                               "WARNING: Text not found in page"))
      [] name = "scrapePageText"  -> Return(scrapePageTextCallback(this, result))
      [] name = "scrapePageLinks" -> Return(scrapePageLinksCallback(this, result))
      [] name = "scrapePageMeta"  -> scrapePageMetaCallback(this, result)

\* Array.prototype.splice(k, 1) on a copy (k counted from 1)
Remove(a, k) == SubSeq(a, 1, k - 1) \o SubSeq(a, k + 1, Len(a))

\* What the inspected page can hand back to each callback.
JSValues == {[t |-> "null"], [t |-> "number", v |-> 0], [t |-> "string", v |-> "hi"]}

SnippetResults ==
    {Undefined, [success |-> FALSE, error |-> "x is not defined"],
     [success |-> TRUE, result |-> Undefined]}
    \cup {[success |-> TRUE, result |-> v] : v \in JSValues}

DomResults == {Undefined, [count |-> 0], [count |-> 2]}

PageResults(name) ==
    CASE name = "scrapePageText" -> {Undefined, [text |-> ""], [text |-> "Hello"]}
      [] name = "scrapePageLinks" ->
            {Undefined, [count |-> 0, links |-> <<>>],
             [count |-> 1, links |-> <<[text |-> "Home", href |-> "https://example.com/"]>>]}
      [] name = "scrapePageMeta" ->
            {Undefined, [title |-> "Example", metas |-> <<>>],
             [title |-> "Example",
              metas |-> <<[name |-> "description", content |-> "An example"]>>],
             [title |-> "Example"]}

Results(name) ==
    IF name = "snippet" THEN SnippetResults
    ELSE IF name \in {"domSetText", "domSetHtml", "domSetAttribute", "domReplaceText"}
    THEN DomResults
    ELSE PageResults(name)

\* The transport invokes the callback of the k-th pending evaluation: the
\* function executeInPage passed to inspectedWindow.eval, which has no try
\* block: thrown is what the callback threw.
evalCallback(k, result, isException) ==
    LET ended == sendMessage([This EXCEPT !.evals = Remove(@, k)], "EXECUTION_END")
        r == callback(ended, evals[k].callback, result, isException)
    IN  /\ lastEvent' = [type |-> "evalCallback", callback |-> evals[k].callback,
                          result |-> result, isException |-> isException,
                          thrown |-> r.err]
        /\ Commit(r.this)
        /\ UNCHANGED <<commandInput, commandHistory, historyIndex, targetUrl,
                       validatedUrl, submitted, ups,
                   delivered, badge>>

EvalDone ==
    \E k \in 1..Len(evals) :
        \E result \in Results(evals[k].callback), isException \in BOOLEAN :
            evalCallback(k, result, isException)


\* ------------------------------------------------------ the inspected page

\* The document the transport evaluates in: three elements, each with one
\* text node and its attributes as <<name, value>> pairs.  Each evaluation is
\* taken against the document as loaded.
Page == <<[tag |-> "h1", text |-> "News", attrs |-> <<>>],
          [tag |-> "h1", text |-> "Cost $5", attrs |-> << <<"title", "old">> >>],
          [tag |-> "p",  text |-> "Only $5 today", attrs |-> <<>>]>>

\* the character an escape sequence \c of a string literal denotes, for the
\* characters the model types after a backslash (not b, v, 0, x or u)
Unescape(c) ==
    CASE c = "n" -> "\n"
      [] c = "t" -> "\t"
      [] c = "r" -> "\r"
      [] c = "f" -> "\f"
      [] OTHER -> c

\* The single-quoted literal of s whose opening quote is before position i:
\* the string it denotes and the position after its closing quote, or not ok
\* when s ends before the literal does.
RECURSIVE ReadLiteral(_, _, _)
ReadLiteral(s, i, value) ==
    IF i > Len(s) THEN [ok |-> FALSE]
    ELSE IF CharAt(s, i) = "'" THEN [ok |-> TRUE, value |-> value, next |-> i + 1]
    ELSE IF CharAt(s, i) = "\\"
    THEN IF i + 1 > Len(s) THEN [ok |-> FALSE]
         ELSE ReadLiteral(s, i + 2, value \o Unescape(CharAt(s, i + 1)))
    ELSE ReadLiteral(s, i + 1, value \o CharAt(s, i))

\* the positions of s at or after position i that hold a quote or a backslash
Marks(s, i) == {j \in i..Len(s) : CharAt(s, j) \in {"'", "\\"}}

\* The strings the single-quoted literals of the script s denote, in order
\* from position i; not ok when the script does not parse: a literal is not
\* terminated, or a backslash stands outside a literal.  The generated
\* scripts have no other kind of literal and no comment.
RECURSIVE Literals(_, _)
Literals(s, i) ==
    IF Marks(s, i) = {} THEN [ok |-> TRUE, values |-> <<>>]
    ELSE LET j == CHOOSE m \in Marks(s, i) : \A n \in Marks(s, i) : m <= n
         IN  IF CharAt(s, j) = "\\" THEN [ok |-> FALSE]
             ELSE LET literal == ReadLiteral(s, j + 1, "")
                  IN  IF ~literal.ok THEN [ok |-> FALSE]
                      ELSE LET rest == Literals(s, literal.next)
                           IN  IF ~rest.ok THEN rest
                               ELSE [ok |-> TRUE,
                                     values |-> <<literal.value>> \o rest.values]

Letters == {LowerChars[i] : i \in 1..26} \cup {UpperChars[i] : i \in 1..26}
Digits == {"0", "1", "2", "3", "4", "5", "6", "7", "8", "9"}

\* document.querySelectorAll(selector) for a type selector or *: the
\* positions of the elements it selects.  Any other text is refused with a
\* SyntaxError, as the texts the model types that are no type selector are.
ValidSelector(selector) ==
    \/ selector = "*"
    \/ /\ Len(selector) > 0
       /\ CharAt(selector, 1) \in Letters
       /\ \A i \in 1..Len(selector) : CharAt(selector, i) \in Letters \cup Digits

querySelectorAll(page, selector) ==
    {i \in 1..Len(page) : selector = "*" \/ ToLowerCase(selector) = page[i].tag}

\* Element.setAttribute(name, value) accepts a name of letters, digits and
\* hyphens beginning with a letter, and throws InvalidCharacterError on the
\* other names the model types.
ValidAttributeName(name) ==
    /\ Len(name) > 0
    /\ CharAt(name, 1) \in Letters
    /\ \A i \in 1..Len(name) : CharAt(name, i) \in Letters \cup Digits \cup {"-"}

setAttribute(attrs, name, value) ==
    IF \E i \in 1..Len(attrs) : attrs[i][1] = ToLowerCase(name)
    THEN [i \in 1..Len(attrs) |->
             IF attrs[i][1] = ToLowerCase(name) THEN <<attrs[i][1], value>> ELSE attrs[i]]
    ELSE Append(attrs, <<ToLowerCase(name), value>>)

\* The length of the match of pattern[j..] at position i of s, or -1: the
\* patterns of the model are made of characters that stand for themselves,
\* of . (any character) and of $ (the end of the input).
RECURSIVE MatchLen(_, _, _, _)
MatchLen(s, i, pattern, j) ==
    IF j > Len(pattern) THEN 0
    ELSE IF CharAt(pattern, j) = "$"
    THEN IF i = Len(s) + 1 THEN MatchLen(s, i, pattern, j + 1) ELSE -1
    ELSE IF i > Len(s) THEN -1
    ELSE IF CharAt(pattern, j) = "." \/ CharAt(pattern, j) = CharAt(s, i)
    THEN LET m == MatchLen(s, i + 1, pattern, j + 1)
         IN  IF m < 0 THEN -1 ELSE m + 1
    ELSE -1

\* s.replace(new RegExp(pattern, 'g'), replacement) from position i of s, for
\* a replacement without $
RECURSIVE RegExpReplace(_, _, _, _)
RegExpReplace(s, i, pattern, replacement) ==
    LET m == MatchLen(s, i, pattern, 1)
    IN  IF i > Len(s) THEN (IF m = 0 THEN replacement ELSE "")
        ELSE IF m > 0
        THEN replacement \o RegExpReplace(s, i + m, pattern, replacement)
        ELSE IF m = 0
        THEN replacement \o CharAt(s, i) \o RegExpReplace(s, i + 1, pattern, replacement)
        ELSE CharAt(s, i) \o RegExpReplace(s, i + 1, pattern, replacement)

\* What an evaluation hands to the callback of the transport, and the
\* document it leaves.
Completed(page, count) ==
    [result |-> [count |-> count], isException |-> FALSE, page |-> page]
Excepted(page) == [result |-> Undefined, isException |-> TRUE, page |-> page]

\* elements.forEach(el => el.textContent = value) over the elements at
\* `positions`
setTextContent(page, positions, value) ==
    [i \in 1..Len(page) |->
        IF i \in positions THEN [page[i] EXCEPT !.text = value] ELSE page[i]]

\* elements.forEach(el => el.setAttribute(name, value))
setAttributes(page, positions, name, value) ==
    [i \in 1..Len(page) |->
        IF i \in positions
        THEN [page[i] EXCEPT !.attrs = setAttribute(@, name, value)]
        ELSE page[i]]

\* nodesToReplace.forEach(node => node.nodeValue = node.nodeValue.replace(...))
replaceNodeValues(page, positions, pattern, replacement) ==
    [i \in 1..Len(page) |->
        IF i \in positions
        THEN [page[i] EXCEPT !.text = RegExpReplace(@, 1, pattern, replacement)]
        ELSE page[i]]

\* The evaluation of a script one of the four DOM sub-operations generated,
\* `name` telling which: the script is read as the page reads it, its
\* literals for what they denote there.
Evaluate(page, name, code) ==
    LET literals == Literals(code, 1)
        v == literals.values
    IN  CASE name = "domSetText" ->
                IF ~literals.ok \/ Len(v) # 2 \/ ~ValidSelector(v[1]) THEN Excepted(page)
                ELSE LET elements == querySelectorAll(page, v[1])
                     IN  Completed(setTextContent(page, elements, v[2]),
                                   Cardinality(elements))
          [] name = "domSetHtml" ->
                \* innerHTML of markup without tags, as the model types it
                IF ~literals.ok \/ Len(v) # 2 \/ ~ValidSelector(v[1]) THEN Excepted(page)
                ELSE LET elements == querySelectorAll(page, v[1])
                     IN  Completed(setTextContent(page, elements, v[2]),
                                   Cardinality(elements))
          [] name = "domSetAttribute" ->
                IF ~literals.ok \/ Len(v) # 3 \/ ~ValidSelector(v[1]) THEN Excepted(page)
                ELSE LET elements == querySelectorAll(page, v[1])
                     IN  IF elements # {} /\ ~ValidAttributeName(v[2])
                         THEN Excepted(page)
                         ELSE Completed(setAttributes(page, elements, v[2], v[3]),
                                        Cardinality(elements))
          [] name = "domReplaceText" ->
                IF ~literals.ok \/ Len(v) # 4 THEN Excepted(page)
                ELSE LET nodesToReplace ==
                             {i \in 1..Len(page) :
                                 page[i].text # "" /\ Includes(page[i].text, v[1])}
                     IN  Completed(replaceNodeValues(page, nodesToReplace, v[2], v[4]),
                                   Cardinality(nodesToReplace))

\* The transport has evaluated the script of the k-th pending evaluation, one
\* of a DOM sub-operation, in the page and invokes its callback.
evaluate(k) ==
    LET evaluated == Evaluate(Page, evals[k].callback, evals[k].code)
    IN  evalCallback(k, evaluated.result, evaluated.isException)

Evaluated ==
    \E k \in 1..Len(evals) :
        /\ evals[k].callback \in {"domSetText", "domSetHtml", "domSetAttribute",
                                  "domReplaceText"}
        /\ evaluate(k)

\* ------------------------------------------------------ fetch completions

maxLength == 5000

\* displayFileContent truncating from maxLength characters on
displayFileContent_AtCap(this, fileName, content) ==
    LET header == appendOutput(this, "\n--- " \o fileName \o " ---", "success")
        displayContent == IF Len(content) >= maxLength
                          THEN SubSeq(content, 1, maxLength) \o "\n\n[... truncated ...]"
                          ELSE content
        body == appendOutput(header, displayContent, "code")
    IN  appendOutput(body, "--- End of " \o fileName \o " ---\n", "success")

displayFileContent(this, fileName, content) ==
    LET header == appendOutput(this, "\n--- " \o fileName \o " ---", "success")
        displayContent == IF Len(content) > maxLength
                          THEN SubSeq(content, 1, maxLength) \o "\n\n[... truncated ...]"
                          ELSE content
        body == appendOutput(header, displayContent, "code")
    IN  appendOutput(body, "--- End of " \o fileName \o " ---\n", "success")

\* How an awaited promise settles: a response (ok or not), the text of a
\* body, or a rejection.
Rejected == [rejected |-> TRUE, message |-> "Failed to fetch"]
Responses == {[ok |-> TRUE], [ok |-> FALSE]}
Contents == {"# widget"}
Settlements(task) ==
    IF task.at \in {"response", "masterResponse"}
    THEN Responses \cup {Rejected}
    ELSE {[text |-> c] : c \in Contents} \cup {Rejected}

\* the catch block of fetchGitHubFile
fileError(this, message) == Return(appendOutput(this, "ERROR: " \o message, "error"))

\* fetchGitHubFile giving up on the first response that is not a success
resumeFetchGitHubFile_NoFallback(this, task, settled) ==
    IF settled = Rejected THEN fileError(this, settled.message)
    ELSE CASE task.at = "response" ->
                IF ~settled.ok
                THEN fileError(this, "File not found: " \o task.path)
                ELSE Await([this EXCEPT !.tasks = Append(@, [task EXCEPT !.at = "text"])])
           [] task.at = "masterResponse" ->
                IF ~settled.ok
                THEN fileError(this, "File not found: " \o task.path)
                ELSE Await([this EXCEPT
                               !.tasks = Append(@, [task EXCEPT !.at = "masterText"])])
           [] task.at \in {"text", "masterText"} ->
                Return(displayFileContent(this, task.path, settled.text))

\* fetchGitHubFile falling back to 'master' on a rejected fetch of 'main' as
\* on a response that is not a success
resumeFetchGitHubFile_RetryRejected(this, task, settled) ==
    IF settled = Rejected /\ task.at = "response"
    THEN Await(fetch(this, RawUrl(task.owner, task.repo, "master", task.path),
                     [task EXCEPT !.at = "masterResponse"]))
    ELSE IF settled = Rejected THEN fileError(this, settled.message)
    ELSE CASE task.at = "response" ->
                IF ~settled.ok
                THEN Await(fetch(this, RawUrl(task.owner, task.repo, "master", task.path),
                                 [task EXCEPT !.at = "masterResponse"]))
                ELSE Await([this EXCEPT !.tasks = Append(@, [task EXCEPT !.at = "text"])])
           [] task.at = "masterResponse" ->
                IF ~settled.ok
                THEN fileError(this, "File not found: " \o task.path)
                ELSE Await([this EXCEPT
                               !.tasks = Append(@, [task EXCEPT !.at = "masterText"])])
           [] task.at \in {"text", "masterText"} ->
                Return(displayFileContent(this, task.path, settled.text))

\* fetchGitHubFile resumed at the await it was suspended at
resumeFetchGitHubFile(this, task, settled) ==
    IF settled = Rejected THEN fileError(this, settled.message)
    ELSE CASE task.at = "response" ->
                IF ~settled.ok
                THEN Await(fetch(this, RawUrl(task.owner, task.repo, "master", task.path),
                                 [task EXCEPT !.at = "masterResponse"]))
                ELSE Await([this EXCEPT !.tasks = Append(@, [task EXCEPT !.at = "text"])])
           [] task.at = "masterResponse" ->
                IF ~settled.ok
                THEN fileError(this, "File not found: " \o task.path)
                ELSE Await([this EXCEPT
                               !.tasks = Append(@, [task EXCEPT !.at = "masterText"])])
           [] task.at \in {"text", "masterText"} ->
                Return(displayFileContent(this, task.path, settled.text))

\* fetchGitHubTree with the try block around the loop instead of inside it: a
\* fetch that rejects ends the probing
resumeFetchGitHubTree_Abort(this, task, settled) ==
    IF settled = Rejected THEN Return(this)
    ELSE LET listed == IF settled.ok
                       THEN appendOutput(this, "  + " \o task.path, "success")
                       ELSE this
         IN  IF task.i < Len(commonFiles)
             THEN Await(fetch(listed,
                              RawUrl(task.owner, task.repo, "main", commonFiles[task.i + 1]),
                              [task EXCEPT !.i = task.i + 1,
                                           !.path = commonFiles[task.i + 1]]))
             ELSE Return(listed)

\* fetchGitHubTree reading this.validatedUrl again at each probe
resumeFetchGitHubTree_Reread(this, task, settled) ==
    LET listed == IF settled # Rejected /\ settled.ok
                  THEN appendOutput(this, "  + " \o task.path, "success")
                  ELSE this
        pathParts == IF validatedUrl = Null THEN <<>>
                     ELSE NonEmpty(SplitOn(validatedUrl.pathname, "/"))
        owner == IF Len(pathParts) >= 2 THEN pathParts[1] ELSE task.owner
        repo == IF Len(pathParts) >= 2 THEN pathParts[2] ELSE task.repo
    IN  IF task.i < Len(commonFiles)
        THEN Await(fetch(listed,
                         RawUrl(owner, repo, "main", commonFiles[task.i + 1]),
                         [task EXCEPT !.i = task.i + 1, !.path = commonFiles[task.i + 1],
                                      !.owner = owner, !.repo = repo]))
        ELSE Return(listed)

\* fetchGitHubTree resumed at the await of its loop
resumeFetchGitHubTree(this, task, settled) ==
    LET listed == IF settled # Rejected /\ settled.ok
                  THEN appendOutput(this, "  + " \o task.path, "success")
                  ELSE this
    IN  IF task.i < Len(commonFiles)
        THEN Await(fetch(listed,
                         RawUrl(task.owner, task.repo, "main", commonFiles[task.i + 1]),
                         [task EXCEPT !.i = task.i + 1, !.path = commonFiles[task.i + 1]]))
        ELSE Return(listed)

\* settle with the indicator reset after the body instead of in a finally
\* block: skipped when the awaited promise rejects
settle_NoFinally(k, settled) ==
    LET task == tasks[k]
        this == [This EXCEPT !.tasks = Remove(@, k)]
        r == IF task.fn = "fetchGitHubFile"
             THEN resumeFetchGitHubFile(this, task, settled)
             ELSE resumeFetchGitHubTree(this, task, settled)
        done == IF r.done /\ settled # Rejected
                THEN setStatusIndicator(r.this, "scraping", FALSE)
                ELSE r.this
    IN  /\ lastEvent' = [type |-> "settled", task |-> task, settled |-> settled,
                          flips |-> done.flips]
        /\ Commit(done)
        /\ UNCHANGED <<commandInput, commandHistory, historyIndex, targetUrl,
                       validatedUrl, submitted, ups,
                   delivered, badge>>

\* settle with the indicator counting the scrapes in progress: reset by the
\* last of them to end
settle_Counted(k, settled) ==
    LET task == tasks[k]
        this == [This EXCEPT !.tasks = Remove(@, k)]
        r == IF task.fn = "fetchGitHubFile"
             THEN resumeFetchGitHubFile(this, task, settled)
             ELSE resumeFetchGitHubTree(this, task, settled)
        done == IF r.done /\ r.this.tasks = <<>>
                THEN setStatusIndicator(r.this, "scraping", FALSE)
                ELSE r.this
    IN  /\ lastEvent' = [type |-> "settled", task |-> task, settled |-> settled,
                          flips |-> done.flips]
        /\ Commit(done)
        /\ UNCHANGED <<commandInput, commandHistory, historyIndex, targetUrl,
                       validatedUrl, submitted, ups, delivered, badge>>

\* The promise the k-th suspended invocation awaits settles; the invocation
\* runs to its next await or to the end of handleScrapeCommand.
settle(k, settled) ==
    LET task == tasks[k]
        this == [This EXCEPT !.tasks = Remove(@, k)]
        r == IF task.fn = "fetchGitHubFile"
             THEN resumeFetchGitHubFile(this, task, settled)
             ELSE resumeFetchGitHubTree(this, task, settled)
        done == IF r.done THEN setStatusIndicator(r.this, "scraping", FALSE)
                ELSE r.this
    IN  /\ lastEvent' = [type |-> "settled", task |-> task, settled |-> settled,
                          flips |-> done.flips]
        /\ Commit(done)
        /\ UNCHANGED <<commandInput, commandHistory, historyIndex, targetUrl,
                       validatedUrl, submitted, ups,
                   delivered, badge>>

Settled == \E k \in 1..Len(tasks) : \E settled \in Settlements(tasks[k]) : settle(k, settled)

\* n copies of s, one after the other
RECURSIVE Repeat(_, _)
Repeat(s, n) ==
    IF n = 0 THEN ""
    ELSE LET half == Repeat(s, n \div 2)
         IN  IF n % 2 = 0 THEN half \o half ELSE half \o half \o s

\* Files at the limit of what displayFileContent shows in full: of
\* maxLength characters, and of one and of several characters more.
LongContents == {Repeat("a", maxLength),
                 Repeat("a", maxLength - 1) \o "bc",
                 Repeat("ab", maxLength)}

\* The text of a response turns out to be a long file.
SettledLong ==
    \E k \in 1..Len(tasks) :
        /\ tasks[k].at \in {"text", "masterText"}
        /\ \E content \in LongContents : settle(k, [text |-> content])

\* ---------------------------------------------------- the background worker

\* devtools.js: the panel is shown, or hidden, and says so to the worker.
onShown ==
    /\ msgs' = Append(msgs, "PANEL_OPENED")
    /\ lastEvent' = [type |-> "shown"]
    /\ UNCHANGED <<commandInput, commandHistory, historyIndex, targetUrl, validatedUrl,
                   status, output, evals, tasks, fetched, submitted, ups,
                   delivered, badge>>

onHidden ==
    /\ msgs' = Append(msgs, "PANEL_CLOSED")
    /\ lastEvent' = [type |-> "hidden"]
    /\ UNCHANGED <<commandInput, commandHistory, historyIndex, targetUrl, validatedUrl,
                   status, output, evals, tasks, fetched, submitted, ups,
                   delivered, badge>>

\* The tab the worker takes a message to come from: sender.tab?.id, or
\* chrome.devtools?.inspectedWindow?.tabId, or undefined when the sender is
\* no tab and the worker has no chrome.devtools.
InspectedTab == [id |-> 1]
SenderTabs == {Undefined, InspectedTab}

\* chrome.action.setBadgeText({ text, tabId }): without a tabId the default
\* badge text is set, with one the text of that tab.
setBadgeText(b, text, tabId) ==
    IF tabId = Undefined THEN [b EXCEPT !.default = text]
    ELSE [b EXCEPT !.tab = [text |-> text]]

\* the text shown on the toolbar while the inspected tab is the active one
BadgeText == IF badge.tab # Null THEN badge.tab.text ELSE badge.default

\* The listener of chrome.runtime.onMessage handles the next message.  The
\* map tabStates it also writes is read nowhere and is left out.
onMessage(tabId) ==
    LET message == msgs[delivered + 1]
    IN  /\ delivered < Len(msgs)
        /\ delivered' = delivered + 1
        /\ badge' = CASE message = "PANEL_OPENED"    -> setBadgeText(badge, "ON", Undefined)
                      [] message = "PANEL_CLOSED"    -> setBadgeText(badge, "", Undefined)
                      [] message = "EXECUTION_START" -> setBadgeText(badge, "RUN", tabId)
                      [] message = "EXECUTION_END"   -> setBadgeText(badge, "ON", tabId)
                      [] OTHER -> badge
        /\ lastEvent' = [type |-> "message", message |-> message, tabId |-> tabId]
        /\ UNCHANGED <<commandInput, commandHistory, historyIndex, targetUrl, validatedUrl,
                       status, output, evals, tasks, msgs, fetched, submitted, ups>>

Delivered == \E tabId \in SenderTabs : onMessage(tabId)

\* ------------------------------------------------------- the specification

Init ==
    /\ commandInput = ""
    /\ commandHistory = <<>>
    /\ historyIndex = -1
    /\ targetUrl = ""
    /\ validatedUrl = Null
    /\ status = [t \in IndicatorTypes |-> FALSE]
    /\ output = <<>>
    /\ evals = <<>>
    /\ tasks = <<>>
    /\ msgs = <<>>
    /\ fetched = <<>>
    /\ lastEvent = [type |-> "load"]
    /\ submitted = <<>>
    /\ ups = 0
    /\ delivered = 0
    /\ badge = [default |-> "", tab |-> Null]

\* A submission that leaves the edit buffer empty after trimming is always
\* accepted: executeCommand returns before touching the history.
CanSubmit(bound) == Trim(commandInput) = "" \/ Len(commandHistory) < bound

\* History: submissions and recalls.
HistoryLines == {"  ", "help", " clear ", "Help me"}

NextHistory ==
    \/ \E line \in HistoryLines : TypeCommand(line)
    \/ (CanSubmit(MaxHistory) /\ Enter)
    \/ ArrowUp
    \/ ArrowDown

SpecHistory == Init /\ [][NextHistory]_vars


\* Validation: attempts on texts of every kind.
TargetTexts == {"  ", "https://github.com/acme/widget", " HTTP://Example.com ",
                "ftp://example.com/x", "javascript:alert(1)", "not a url"}

NextValidate ==
    \/ \E text \in TargetTexts : TypeTarget(text)
    \/ (Len(output) < MaxOutput /\ validateTargetUrl)

SpecValidate == Init /\ [][NextValidate]_vars

\* Scraping: scrape commands of every sub-mode, with and without a target,
\* each submitted once the fetches of the one before have completed.
ScrapeLines == {"scrape", "SCRAPE github readme", "scrape github tree",
                "scrape github file a.txt", "scrape github", "scrape page text",
                "scrape page links", "scrape page meta", "scrape page",
                "scrape bogus x"}

ScrapeTargets == {"https://github.com/acme/widget", "not a url"}

NextScrape ==
    \/ (Len(commandHistory) < MaxCommands /\ \E line \in ScrapeLines : TypeCommand(line))
    \/ (CanSubmit(MaxCommands) /\ tasks = <<>> /\ Enter)
    \/ (Len(output) < MaxLog /\ \E text \in ScrapeTargets : TypeTarget(text))
    \/ (Len(output) < MaxLog /\ validateTargetUrl)
    \/ EvalDone
    \/ Settled

SpecScrape == Init /\ [][NextScrape]_vars

\* The panel: commands of every family, overlapping, with recalls and
\* validation attempts.
PanelLines == {"help", "clear", "scrape github readme", "scrape page text",
               "dom set h1 Hi", "eval 1+1", "x"}

PanelTargets == {"https://github.com/acme/widget", "not a url"}

NextPanel ==
    \/ (Len(commandHistory) < MaxCommands /\ \E line \in PanelLines : TypeCommand(line))
    \/ (CanSubmit(MaxCommands) /\ Enter)
    \/ ArrowUp
    \/ ArrowDown
    \/ (Len(output) < MaxLog /\ \E text \in PanelTargets : TypeTarget(text))
    \/ (Len(output) < MaxLog /\ validateTargetUrl)
    \/ EvalDone
    \/ Settled

SpecPanel == Init /\ [][NextPanel]_vars

\* Dispatching: lines of every family, in mixed case, with and without the
\* arguments their handler demands, before and after a target is validated.
DispatchLines == {"help", "HELP me", "Clear all", "x", "evaluate 2",
                  "eval", " EXEC ", "run", "Eval 1+1", "run  x ",
                  "dom", "dom set h1", "DOM SET h1 Hi there", "dom html p",
                  "dom attr a href", "dom attr a href #", "dom replace old",
                  "dom paint h1 red",
                  "scrape", "scrape ftp x", "Scrape GitHub", "scrape github file",
                  "scrape github bogus", "scrape github readme",
                  "scrape page", "scrape page bogus", "scrape page text"}

DispatchTargets == {"https://github.com/acme/widget"}

NextDispatch ==
    \/ (Len(commandHistory) < MaxCommands /\ \E line \in DispatchLines : TypeCommand(line))
    \/ (CanSubmit(MaxCommands) /\ Enter)
    \/ (Len(output) < MaxLog /\ \E text \in DispatchTargets : TypeTarget(text))
    \/ (Len(output) < MaxLog /\ validateTargetUrl)
    \/ Settled

SpecDispatch == Init /\ [][NextDispatch]_vars

\* DOM commands: the four sub-operations on selectors that select two
\* elements and none, on texts with quotes and backslashes, and on old texts
\* with characters a pattern reads as operators; each submitted once the
\* evaluation of the one before has completed.
DomLines == {"dom", "dom set h1", "dom set h1 Hello", "dom set h2 Hello",
             "dom set h1 it's here", "dom set h1 C:\\dir", "dom set h1 \\'",
             "dom set h1 don't \\",
             "dom html p fine", "dom html div none",
             "dom attr h1 title new", "dom attr p it's x", "dom attr h3 id x",
             "dom replace News Olds", "dom replace $5 free", "dom replace Zzz y",
             "dom replace Cost Price of"}

NextDom ==
    \/ (Len(commandHistory) < MaxCommands /\ \E line \in DomLines : TypeCommand(line))
    \/ (CanSubmit(MaxCommands) /\ evals = <<>> /\ Enter)
    \/ ArrowUp
    \/ ArrowDown
    \/ Evaluated

SpecDom == Init /\ [][NextDom]_vars

\* File fetches: the readme and a named file of a repository, with files of
\* every length, submitted one after the other, with recalls.
FileLines == {"scrape github readme", "scrape github file a.txt",
              "scrape github file src/main.c"}

FileTargets == {"https://github.com/acme/widget"}

NextFile ==
    \/ (Len(commandHistory) < MaxCommands /\ \E line \in FileLines : TypeCommand(line))
    \/ (CanSubmit(MaxCommands) /\ tasks = <<>> /\ Enter)
    \/ ArrowUp
    \/ ArrowDown
    \/ (Len(output) < MaxLog /\ \E text \in FileTargets : TypeTarget(text))
    \/ (Len(output) < MaxLog /\ validateTargetUrl)
    \/ Settled
    \/ SettledLong

SpecFile == Init /\ [][NextFile]_vars

\* The badge: the panel shown and hidden while commands that evaluate in
\* the page are submitted and complete, with the worker handling the messages in the
\* order they were sent.
MaxEvals == 2
MaxMessages == 7

BadgeLines == {"dom set h1 Hi"}

\* the last message of devtools.js among the first n sent
RECURSIVE Lifecycle(_)
Lifecycle(n) ==
    IF n = 0 THEN "PANEL_CLOSED"
    ELSE IF msgs[n] \in {"PANEL_OPENED", "PANEL_CLOSED"} THEN msgs[n]
    ELSE Lifecycle(n - 1)

Shown == Lifecycle(Len(msgs)) = "PANEL_OPENED"

NextBadge ==
    \/ (~Shown /\ Len(msgs) < MaxMessages /\ onShown)
    \/ (Shown /\ Len(msgs) < MaxMessages /\ onHidden)
    \/ (Shown /\ Len(commandHistory) < MaxEvals
           /\ \E line \in BadgeLines : TypeCommand(line))
    \/ (Shown /\ CanSubmit(MaxEvals) /\ Len(msgs) < MaxMessages /\ Enter)
    \/ Evaluated
    \/ Delivered

SpecBadge == Init /\ [][NextBadge]_vars

\* Overlap: commands that suspend on a fetch or on the transport, each
\* submitted whether or not the ones before have completed.  Every awaited
\* promise settles and every evaluation calls back: the browser ends a
\* request with a response or a rejection, and the event loop runs the
\* continuation.
MaxOverlap == 2

OverlapLines == {"scrape github file a.txt", "eval 1+1"}

OverlapTargets == {"https://github.com/acme/widget"}

NextOverlap ==
    \/ (Len(commandHistory) < MaxOverlap /\ \E line \in OverlapLines : TypeCommand(line))
    \/ (CanSubmit(MaxOverlap) /\ Enter)
    \/ (validatedUrl = Null /\ \E text \in OverlapTargets : TypeTarget(text))
    \/ (validatedUrl = Null /\ targetUrl # "" /\ validateTargetUrl)
    \/ EvalDone
    \/ Settled

SpecOverlap ==
    Init /\ [][NextOverlap]_vars /\ WF_vars(Settled) /\ WF_vars(EvalDone)

\* Indicators: one command of each family and of each scrape sub-mode, with
\* the completions of its fetches and evaluations.
FlagLines == {"help", "eval 1+1", "dom set h1 Hi", "scrape page text",
              "scrape page meta", "scrape github readme", "scrape bogus"}

FlagTargets == {"https://github.com/acme/widget"}

NextFlags ==
    \/ (Len(commandHistory) < MaxCommands /\ \E line \in FlagLines : TypeCommand(line))
    \/ (CanSubmit(MaxCommands) /\ Enter)
    \/ (validatedUrl = Null /\ \E text \in FlagTargets : TypeTarget(text))
    \/ (validatedUrl = Null /\ targetUrl # "" /\ validateTargetUrl)
    \/ EvalDone
    \/ Settled

SpecFlags == Init /\ [][NextFlags]_vars

StartsWith(s, prefix) == Len(s) >= Len(prefix) /\ SubSeq(s, 1, Len(prefix)) = prefix

\* Retargeting: validation attempts on texts of every kind before a
\* repository scrape and while it is suspended on a fetch that is answered;
\* one scrape is submitted.
MaxValidations == 2

RetargetLines == {"scrape github tree", "scrape github file a.txt"}

RetargetTexts == {"https://github.com/acme/widget", "https://github.com/other/lib",
                  "ftp://example.com/x", "  "}

\* the lines validateTargetUrl has appended
ValidationLines ==
    SelectSeq(output, LAMBDA line :
        \/ StartsWith(line.text, "+ Target URL validated: ")
        \/ StartsWith(line.text, "ERROR: Invalid URL - ")
        \/ line.text = "ERROR: Please enter a URL")

NextRetarget ==
    \/ (submitted = <<>> /\ \E line \in RetargetLines : TypeCommand(line))
    \/ (submitted = <<>> /\ Enter)
    \/ (Len(ValidationLines) < MaxValidations /\ (tasks # <<>> \/ validatedUrl = Null)
           /\ \E text \in RetargetTexts : TypeTarget(text))
    \/ (Len(ValidationLines) < MaxValidations /\ (tasks # <<>> \/ validatedUrl = Null)
           /\ validateTargetUrl)
    \/ \E k \in 1..Len(tasks) :
           \E settled \in Settlements(tasks[k]) \ {Rejected} : settle(k, settled)

SpecRetarget == Init /\ [][NextRetarget]_vars

\* Preconditions: validation attempts on valid, invalid and blank text, then
\* one scrape command.
PreconditionLines == {"scrape github readme", "scrape page text", "scrape"}

PreconditionTexts == {"https://github.com/acme/widget", "  ", "",
                      "ftp://example.com/x", "not a url"}

NextPrecondition ==
    \/ (submitted = <<>> /\ \E line \in PreconditionLines : TypeCommand(line))
    \/ (submitted = <<>> /\ Enter)
    \/ (Len(ValidationLines) < MaxValidations /\ submitted = <<>>
           /\ \E text \in PreconditionTexts : TypeTarget(text))
    \/ (Len(ValidationLines) < MaxValidations /\ submitted = <<>> /\ validateTargetUrl)

SpecPrecondition == Init /\ [][NextPrecondition]_vars

\* ------------------------------------------------------------------ claims

\* C1: in every reachable state the history cursor c satisfies
\* -1 <= c <= length(history) - 1.
C1_CursorInBounds ==
    /\ -1 <= historyIndex
    /\ historyIndex <= Len(commandHistory) - 1

\* "up" has walked the cursor to the oldest of several entries
C1_Witness ==
    /\ lastEvent.type = "ArrowUp"
    /\ Len(commandHistory) >= 2
    /\ historyIndex = Len(commandHistory) - 1

\* C2 as stated: a "down" recall performed at cursor -1 always yields an
\* empty edit buffer.
C2_DownAtRestEmptiesBuffer ==
    [][(lastEvent'.type = "ArrowDown" /\ Len(commandHistory) > 0 /\ historyIndex = -1)
          => commandInput' = ""]_vars

\* C2 amended: a "down" recall that moves past the newest entry sets the
\* cursor to -1 and empties the edit buffer; a "down" recall at cursor -1
\* leaves the cursor at -1 and the edit buffer as it is, so that repeated
\* "down" recalls past the newest entry keep the cursor at -1 and the buffer
\* empty.
C2_DownPastNewest ==
    [][lastEvent'.type = "ArrowDown" =>
          /\ (historyIndex = 0 => historyIndex' = -1 /\ commandInput' = "")
          /\ (historyIndex = -1 => historyIndex' = -1 /\ commandInput' = commandInput)]_vars

\* "down" was pressed at cursor -1 over text the user had typed
C2_Witness ==
    /\ lastEvent.type = "ArrowDown"
    /\ Len(commandHistory) > 0
    /\ historyIndex = -1
    /\ commandInput # ""

\* C3: after submitting c1..cn in that order, the i-th consecutive "up"
\* (1 <= i <= n) sets the cursor to i-1 and loads c(n-i+1); every "up" issued
\* when the cursor is already n-1 changes neither the cursor nor the buffer.
C3_MostRecentFirst ==
    LET n == Len(submitted)
    IN  /\ Len(commandHistory) = n
        /\ ups >= 1 =>
             IF ups <= n
             THEN historyIndex = ups - 1 /\ commandInput = submitted[n - ups + 1]
             ELSE historyIndex = n - 1 /\ (n > 0 => commandInput = submitted[1])

\* one "up" more than there are entries, over distinct commands
C3_Witness ==
    /\ Len(submitted) >= 3
    /\ submitted[1] # submitted[2] /\ submitted[2] # submitted[3]
    /\ ups = Len(submitted) + 1
    /\ commandInput = submitted[1]


\* the first token of a submitted command, lowercased
Family(command) == ToLowerCase(Split(command)[1])

Last(a) == a[Len(a)]

\* C4: whenever ValidatedTarget is unset, every command whose first token is
\* "scrape" appends an error line and issues no network fetch and no
\* transport evaluation.
C4_ScrapeNeedsTarget ==
    [][(/\ lastEvent'.type = "Enter"
        /\ lastEvent'.command # ""
        /\ Family(lastEvent'.command) = "scrape"
        /\ validatedUrl = Null)
       => /\ Len(output') = Len(output) + 2
          /\ SubSeq(output', 1, Len(output)) = output
          /\ output'[Len(output) + 1] =
                 [text |-> Prompt \o lastEvent'.command, type |-> "command-line"]
          /\ Last(output').type = "error"
          /\ fetched' = fetched
          /\ evals' = evals
          /\ tasks' = tasks
          /\ msgs' = msgs]_vars

\* a page scrape was submitted with no target validated
C4_Witness ==
    /\ lastEvent.type = "Enter"
    /\ lastEvent.command = "scrape page text"
    /\ validatedUrl = Null
    /\ Last(output).type = "error"
    /\ evals = <<>>

\* C5: ValidatedTarget is changed only by a validation attempt.
C5_TargetFrame ==
    [][validatedUrl' # validatedUrl => lastEvent'.type = "validate"]_vars

\* a scrape has run to the completion of its fetches under a target that
\* is still the validated one
C5_Witness ==
    /\ lastEvent.type = "settled"
    /\ tasks = <<>>
    /\ validatedUrl # Null
    /\ validatedUrl.hostname = "github.com"

HttpScheme(text) ==
    \/ StartsWith(ToLowerCase(Trim(text)), "http://")
    \/ StartsWith(ToLowerCase(Trim(text)), "https://")

\* C6: a non-null ValidatedTarget has scheme http or https; a validation
\* attempt on a URL with another scheme, or on text that does not parse as a
\* URL, leaves ValidatedTarget null.
C6_HttpOnly ==
    [][/\ validatedUrl' # Null => validatedUrl'.protocol \in {"http:", "https:"}
       /\ (/\ lastEvent'.type = "validate"
           /\ Trim(targetUrl) # ""
           /\ ~HttpScheme(targetUrl))
          => validatedUrl' = Null]_vars

\* an ftp URL was refused right after a target had been validated
C6_Witness ==
    /\ lastEvent.type = "validate"
    /\ targetUrl = "ftp://example.com/x"
    /\ Len(output) >= 2
    /\ output[Len(output) - 1].type = "success"
    /\ Last(output).type = "error"
    /\ validatedUrl = Null

DomCallbacks == {"domSetText", "domSetHtml", "domSetAttribute", "domReplaceText"}
PageCallbacks == {"scrapePageText", "scrapePageLinks", "scrapePageMeta"}

\* an evaluation requested by a callback of `names` awaits its callback
Pending(names) == \E k \in 1..Len(evals) : evals[k].callback \in names

\* a handler invocation of the family has not ended: only the scrape handler
\* suspends (at the fetches of a repository scrape); the script-execution and
\* DOM handlers, and a page scrape, end within the step that dispatches them
Suspended(family) == family = "scraping" /\ tasks # <<>>

\* C7: once a scrape, dom or script-execution handler invocation has ended
\* (by success, by a handled error, or by throwing) and no other invocation
\* of that family is in flight, that family's flag is Idle.
C7_IdleWhenDone ==
    \A family \in IndicatorTypes : ~Suspended(family) => ~status[family]

\* the only fetch in flight was rejected, and its scrape has ended
C7_Witness ==
    /\ lastEvent.type = "settled"
    /\ lastEvent.settled = Rejected
    /\ tasks = <<>>
    /\ Last(output).type = "error"
    /\ ~status["scraping"]

\* C8: while the transport has not invoked the callback of a script-execution
\* or DOM command, or a fetch of a scrape command has not settled, the
\* corresponding status flag is Active.
C8_ActiveWhilePending ==
    /\ Pending({"snippet"}) => status["snippet"]
    /\ Pending(DomCallbacks) => status["dom"]
    /\ tasks # <<>> => status["scraping"]

Count(a, x) == Cardinality({k \in 1..Len(a) : a[k] = x})

\* C9: every execution-start message is followed by its own execution-end
\* message: the starts not yet ended are those of the evaluations whose
\* callback is still to come.
C9_EveryStartEnds ==
    Count(msgs, "EXECUTION_START") = Count(msgs, "EXECUTION_END") + Len(evals)

C10_Pretty(value) ==
    CASE value = [t |-> "null"] -> "null"
      [] value = [t |-> "number", v |-> 0] -> "0"
      [] value = [t |-> "string", v |-> "hi"] -> "\"hi\""

\* C10: when the transport call of a script completes, exactly one result
\* line is appended: an exception line if the transport reports an uncaught
\* exception; else an error line with the message if the wrapped evaluation
\* caught an error; else the pretty-printed value if one other than undefined
\* was produced; else the text "undefined".
C10_OneResultLine ==
    [][(lastEvent'.type = "evalCallback" /\ lastEvent'.callback = "snippet")
       => LET result == lastEvent'.result
              line == Last(output')
          IN  /\ Len(output') = Len(output) + 1
              /\ SubSeq(output', 1, Len(output)) = output
              /\ IF lastEvent'.isException
                 THEN StartsWith(line.text, "EXCEPTION: ")
                 ELSE IF result # Undefined /\ result.success = FALSE
                 THEN line = [text |-> "ERROR: " \o result.error, type |-> "error"]
                 ELSE IF result # Undefined /\ result.result # Undefined
                 THEN line = [text |-> C10_Pretty(result.result), type |-> "success"]
                 ELSE line = [text |-> "undefined", type |-> "success"]]_vars

\* the transport reported an exception along with a caught-error result
C10_Witness ==
    /\ lastEvent.type = "evalCallback"
    /\ lastEvent.callback = "snippet"
    /\ lastEvent.isException
    /\ lastEvent.result = [success |-> FALSE, error |-> "x is not defined"]
    /\ Last(output).text = "EXCEPTION: [object Object]"

\* C11: when the transport callback of a command that invoked the transport
\* reports an uncaught exception, the command appends one line of an
\* exception category (a category of its own, or at least a text marked
\* "EXCEPTION: ") and no warning or success result line.
C11_ExceptionLine ==
    [][(/\ lastEvent'.type = "evalCallback"
        /\ lastEvent'.isException
        /\ lastEvent'.result = Undefined)
       => /\ Len(output') = Len(output) + 1
          /\ SubSeq(output', 1, Len(output)) = output
          /\ Last(output').type \notin {"warning", "success"}
          /\ \/ Last(output').type = "exception"
             \/ StartsWith(Last(output').text, "EXCEPTION: ")]_vars

\* the lines the step from `before` to `after` appended to the log
Appended(before, after) == SubSeq(after, Len(before) + 1, Len(after))

\* the step has appended `lines` to the log and nothing else has changed in it
Appends(before, after, lines) ==
    /\ Len(after) = Len(before) + Len(lines)
    /\ SubSeq(after, 1, Len(before)) = before
    /\ Appended(before, after) = lines

Echo(command) == [text |-> Prompt \o command, type |-> "command-line"]

\* C12: a command consisting of 'eval', 'exec' or 'run' with no script text
\* after the keyword appends exactly one error line, makes no transport call,
\* emits no execution-start or execution-end message, and never sets the
\* script-execution flag Active.
C12_NoScript ==
    [][(/\ lastEvent'.type = "Enter"
        /\ ToLowerCase(lastEvent'.command) \in {"eval", "exec", "run"})
       => /\ Appends(output, output',
                     <<Echo(lastEvent'.command),
                       [text |-> "ERROR: No code provided", type |-> "error"]>>)
          /\ evals' = evals
          /\ msgs' = msgs
          /\ lastEvent'.flips = <<>>
          /\ status' = status]_vars

\* the keyword alone was submitted in capitals, padded with spaces
C12_Witness ==
    /\ lastEvent.type = "Enter"
    /\ lastEvent.command = "EXEC"
    /\ Last(output) = [text |-> "ERROR: No code provided", type |-> "error"]
    /\ evals = <<>>
    /\ msgs = <<>>

TopLevelHandlers == {"showHelp", "clearTerminal", "handleScrapeCommand",
                     "handleDomCommand", "handleSnippetExecution"}

\* the flags the step has taken from Active to Idle, one entry per transition
Idled(flips) == SelectSeq(flips, LAMBDA f : ~f.active)

\* C13: for every non-empty command line exactly one top-level handler (help,
\* clear, scrape, dom, or script execution) runs, and during that invocation
\* at most one of the three status flags makes an Active -> Idle transition;
\* for 'help' and 'clear' no flag changes at all.  The invocation of a
\* repository scrape goes on in the steps that settle its fetches.
C13_OneHandler ==
    [][/\ (lastEvent'.type = "Enter" /\ lastEvent'.command # "")
          => /\ Len(lastEvent'.calls) = 1
             /\ lastEvent'.calls[1].handler \in TopLevelHandlers
             /\ Len(Idled(lastEvent'.flips)) <= 1
             /\ lastEvent'.calls[1].handler \in {"showHelp", "clearTerminal"}
                   => lastEvent'.flips = <<>> /\ status' = status
             /\ tasks' # tasks => Idled(lastEvent'.flips) = <<>>
       /\ lastEvent'.type = "settled"
          => /\ Len(Idled(lastEvent'.flips)) <= 1
             /\ tasks' # <<>> /\ Len(tasks') = Len(tasks)
                   => lastEvent'.flips = <<>>]_vars

\* a DOM command whose transport call threw has set and reset its own flag
C13_Witness ==
    /\ lastEvent.type = "Enter"
    /\ lastEvent.command = "DOM SET h1 Hi there"
    /\ lastEvent.throws
    /\ lastEvent.calls = <<[handler |-> "handleDomCommand",
                            argument |-> <<"SET", "h1", "Hi", "there">>]>>
    /\ lastEvent.flips = <<[type |-> "dom", active |-> TRUE],
                           [type |-> "dom", active |-> FALSE]>>

\* the first whitespace-delimited token of a trimmed line, and what follows it
FirstToken(command) == SubSeq(command, 1, TokenLen(command))
AfterFirstToken(command) ==
    Trim(SubSeq(command, TokenLen(command) + 1, Len(command)))
TrailingTokens(command) ==
    IF AfterFirstToken(command) = "" THEN <<>> ELSE Split(AfterFirstToken(command))

\* C14: the dispatcher classifies a line by its lowercased first
\* whitespace-delimited token only: help, clear, scrape and dom select those
\* families regardless of case and of trailing tokens; eval, exec and run pass
\* the rest of the line (keyword removed, trimmed) to script execution; every
\* other first token passes the whole trimmed line unchanged to script
\* execution.
C14_Classify ==
    [][(lastEvent'.type = "Enter" /\ lastEvent'.command # "")
       => LET command == lastEvent'.command
              family == ToLowerCase(FirstToken(command))
              call == lastEvent'.calls[1]
              script == IF family \in {"eval", "exec", "run"}
                        THEN AfterFirstToken(command) ELSE command
          IN  CASE family = "help"   -> call.handler = "showHelp"
                [] family = "clear"  -> call.handler = "clearTerminal"
                [] family = "scrape" -> /\ call.handler = "handleScrapeCommand"
                                        /\ call.argument = TrailingTokens(command)
                [] family = "dom"    -> /\ call.handler = "handleDomCommand"
                                        /\ call.argument = TrailingTokens(command)
                [] OTHER ->
                     /\ call.handler = "handleSnippetExecution"
                     /\ call.argument = script
                     /\ (script # "" /\ ~lastEvent'.throws)
                           => evals' = Append(evals, [code |-> WrapCode(script),
                                                      callback |-> "snippet"])]_vars

\* a keyword in mixed case was stripped from the script it introduced
C14_Witness ==
    /\ lastEvent.type = "Enter"
    /\ lastEvent.command = "Eval 1+1"
    /\ ~lastEvent.throws
    /\ lastEvent.calls = <<[handler |-> "handleSnippetExecution", argument |-> "1+1"]>>
    /\ evals = <<[code |-> WrapCode("1+1"), callback |-> "snippet"]>>

\* the lines of category 'error' among `lines`
Errors(lines) == SelectSeq(lines, LAMBDA l : l.type = "error")

\* C15: any error thrown while a handler processes a command, at any step up
\* to and including the rendering of its result, produces exactly one output
\* line of category 'error' carrying the error's message: the error the
\* transport call throws, and the error the rendering of the result throws.
C15_ErrorsRendered ==
    [][/\ (lastEvent'.type = "Enter" /\ lastEvent'.throws /\ msgs' # msgs)
          => /\ Errors(Appended(output, output'))
                    = <<[text |-> "ERROR: " \o TransportError, type |-> "error"]>>
             /\ Last(output').type = "error"
       /\ (lastEvent'.type = "evalCallback" /\ lastEvent'.thrown # NoError)
          => Errors(Appended(output, output'))
                 = <<[text |-> "ERROR: " \o lastEvent'.thrown.message,
                      type |-> "error"]>>]_vars

\* the command is a user input error: a dom sub-operation with fewer than
\* its minimum of arguments, an unknown or missing dom, scrape, github or page
\* sub-command, or 'scrape github file' with no path
InputError(command) ==
    LET args == TrailingTokens(command)
        sub == IF Len(args) = 0 THEN "" ELSE ToLowerCase(args[1])
        action == IF Len(args) < 2 THEN "" ELSE ToLowerCase(args[2])
    IN  CASE ToLowerCase(FirstToken(command)) = "dom" ->
                \/ sub \notin {"set", "html", "attr", "replace"}
                \/ sub \in {"set", "html", "replace"} /\ Len(args) - 1 < 2
                \/ sub = "attr" /\ Len(args) - 1 < 3
          [] ToLowerCase(FirstToken(command)) = "scrape" ->
                \/ sub \notin {"github", "page"}
                \/ sub = "page" /\ action \notin {"text", "links", "meta"}
                \/ sub = "github" /\ action \notin {"readme", "tree", "file"}
                \/ sub = "github" /\ action = "file" /\ Len(args) < 3
          [] OTHER -> FALSE

\* C16: every user input error aborts before any external call: it appends
\* an error line and makes no transport evaluation and no network fetch.
C16_InputErrorsAbort ==
    [][(/\ lastEvent'.type = "Enter"
        /\ lastEvent'.command # ""
        /\ InputError(lastEvent'.command))
       => /\ Len(output') > Len(output)
          /\ Last(output').type = "error"
          /\ evals' = evals
          /\ msgs' = msgs
          /\ fetched' = fetched
          /\ tasks' = tasks]_vars

\* a file scrape without a path was refused under a validated repository
C16_Witness ==
    /\ lastEvent.type = "Enter"
    /\ lastEvent.command = "scrape github file"
    /\ validatedUrl # Null
    /\ Last(output) = [text |-> "ERROR: Please specify a file path", type |-> "error"]
    /\ fetched = <<>>
    /\ evals = <<>>

\* the elements of `page` that differ from what they were when loaded
Changed(page) == {i \in 1..Len(Page) : page[i] # Page[i]}

\* C17: for each of the four DOM sub-operations whose transport call
\* completes, exactly one result line is appended: a warning line, with the
\* page not mutated, when the affected count is 0, and a success line carrying
\* the count n when n > 0, where n is the number of elements (or text nodes,
\* for replace) actually mutated.
C17_DomResultLine ==
    [][(/\ lastEvent'.type = "evalCallback"
        /\ lastEvent'.callback \in DomCallbacks
        /\ ~lastEvent'.isException
        /\ Len(evals) = 1)
       => LET evaluated == Evaluate(Page, evals[1].callback, evals[1].code)
              n == lastEvent'.result.count
          IN  /\ lastEvent'.result = evaluated.result
              /\ Len(output') = Len(output) + 1
              /\ SubSeq(output', 1, Len(output)) = output
              /\ IF n = 0
                 THEN /\ Last(output').type = "warning"
                      /\ evaluated.page = Page
                 ELSE /\ Last(output').type = "success"
                      /\ Includes(Last(output').text, " " \o ToString(n) \o " ")
                      /\ n = Cardinality(Changed(evaluated.page))]_vars

\* the strings a DOM command hands to its sub-operation, in the order of the
\* literals of the script generated: selector and text; selector, attribute
\* name and value; old text (twice), the flag of the pattern, and new text
DomArguments(command) ==
    LET args == Slice(TrailingTokens(command), 1)
        sub == ToLowerCase(TrailingTokens(command)[1])
    IN  CASE sub \in {"set", "html"} -> <<args[1], Join(Slice(args, 1), " ")>>
          [] sub = "attr" -> <<args[1], args[2], Join(Slice(args, 2), " ")>>
          [] sub = "replace" -> <<args[1], args[1], "g", Join(Slice(args, 1), " ")>>

\* C18: escaping round-trips for every user-supplied DOM argument, single
\* quotes and backslashes included: each single-quoted literal of the
\* generated script is well formed and denotes exactly the argument.
C18_EscapingRoundTrips ==
    [][(/\ lastEvent'.type = "Enter"
        /\ Len(evals') = Len(evals) + 1
        /\ Last(evals').callback \in DomCallbacks)
       => LET literals == Literals(Last(evals').code, 1)
          IN  /\ literals.ok
              /\ literals.values = DomArguments(lastEvent'.command)]_vars

\* the command fetches one file of the repository: its readme, or the file
\* whose path it names
IsFileFetch(command) ==
    LET args == TrailingTokens(command)
    IN  /\ Family(command) = "scrape"
        /\ Len(args) >= 2
        /\ ToLowerCase(args[1]) = "github"
        /\ \/ ToLowerCase(args[2]) = "readme"
           \/ ToLowerCase(args[2]) = "file" /\ Len(args) >= 3

IsTreeProbe(command) ==
    LET args == TrailingTokens(command)
    IN  /\ Family(command) = "scrape"
        /\ Len(args) >= 2
        /\ ToLowerCase(args[1]) = "github"
        /\ ToLowerCase(args[2]) = "tree"

IsMaster(url) == Includes(url, "/master/")

\* the URL of the same file on the other branch
OnMain(url) ==
    LET at == CHOOSE i \in 1..Len(url) : SubSeq(url, i, i + 7) = "/master/"
    IN  SubSeq(url, 1, at) \o "main" \o SubSeq(url, at + 7, Len(url))

\* C19: a file fetch requests the 'main' raw URL first; it requests the
\* 'master' raw URL if and only if the 'main' response is non-success, and
\* never more than once; the content of the first successful response is
\* displayed; if both responses are non-success exactly one not-found error
\* line is appended and no content is displayed.  At most two fetches are
\* issued per file fetch.
C19_MainThenMaster ==
    [][/\ (lastEvent'.type = "Enter" /\ Len(tasks') = Len(tasks) + 1
           /\ Last(tasks').fn = "fetchGitHubFile")
          => LET task == Last(tasks')
             IN  fetched' = Append(fetched,
                               RawUrl(task.owner, task.repo, "main", task.path))
       /\ (lastEvent'.type = "settled" /\ lastEvent'.task.fn = "fetchGitHubFile")
          => LET task == lastEvent'.task
                 settled == lastEvent'.settled
                 failed == settled # Rejected /\ ~settled.ok
             IN  CASE task.at = "response" ->
                        IF failed
                        THEN /\ fetched' = Append(fetched,
                                      RawUrl(task.owner, task.repo, "master", task.path))
                             /\ output' = output
                        ELSE fetched' = fetched
                   [] task.at = "masterResponse" ->
                        /\ fetched' = fetched
                        /\ failed =>
                             /\ Appends(output, output',
                                    <<[text |-> "ERROR: File not found: " \o task.path,
                                       type |-> "error"]>>)
                             /\ Len(tasks') = Len(tasks) - 1
                   [] task.at \in {"text", "masterText"} ->
                        /\ fetched' = fetched
                        /\ settled # Rejected =>
                             /\ Len(output') = Len(output) + 3
                             /\ output'[Len(output) + 2] =
                                    [text |-> settled.text, type |-> "code"]
       /\ fetched' # fetched
          => /\ Len(fetched') = Len(fetched) + 1
             /\ SubSeq(fetched', 1, Len(fetched)) = fetched
             /\ IsMaster(Last(fetched'))
                   => fetched # <<>> /\ Last(fetched) = OnMain(Last(fetched'))
             /\ Len(fetched') <= 2 * Len(SelectSeq(submitted', IsFileFetch))
                                 + Len(commonFiles)
                                   * Len(SelectSeq(submitted', IsTreeProbe))]_vars

\* the file was missing on 'main' and its content on 'master' is displayed
C19_Witness ==
    /\ lastEvent.type = "settled"
    /\ lastEvent.task.at = "masterText"
    /\ lastEvent.settled = [text |-> "# widget"]
    /\ fetched = <<RawUrl("acme", "widget", "main", "a.txt"),
                   RawUrl("acme", "widget", "master", "a.txt")>>
    /\ output[Len(output) - 1] = [text |-> "# widget", type |-> "code"]

TruncationMarker == "\n\n[... truncated ...]"

\* C20: a successfully fetched file is displayed as a header line, one
\* content line and a footer line; content of length <= 5000 is shown in full
\* with no truncation marker, and content of length > 5000 is shown as exactly
\* its first 5000 characters followed by the truncation marker.
C20_Truncation ==
    [][(/\ lastEvent'.type = "settled"
        /\ lastEvent'.task.fn = "fetchGitHubFile"
        /\ lastEvent'.task.at \in {"text", "masterText"}
        /\ lastEvent'.settled # Rejected)
       => LET content == lastEvent'.settled.text
              fileName == lastEvent'.task.path
              lines == Appended(output, output')
          IN  /\ Len(output') = Len(output) + 3
              /\ SubSeq(output', 1, Len(output)) = output
              /\ lines[1] = [text |-> "\n--- " \o fileName \o " ---", type |-> "success"]
              /\ lines[3] = [text |-> "--- End of " \o fileName \o " ---\n",
                             type |-> "success"]
              /\ lines[2].type = "code"
              /\ IF Len(content) <= 5000
                 THEN lines[2].text = content
                 ELSE /\ Len(lines[2].text) = 5000 + Len(TruncationMarker)
                      /\ SubSeq(lines[2].text, 1, 5000) = SubSeq(content, 1, 5000)
                      /\ SubSeq(lines[2].text, 5001, Len(lines[2].text))
                            = TruncationMarker]_vars

\* a file of 5001 characters has been displayed cut after its 5000th
C20_Witness ==
    /\ lastEvent.type = "settled"
    /\ lastEvent.task.at = "text"
    /\ lastEvent.settled # Rejected
    /\ Len(lastEvent.settled.text) = 5001
    /\ Len(output) >= 3
    /\ Len(output[Len(output) - 1].text) = 5000 + Len(TruncationMarker)
    /\ SubSeq(output[Len(output) - 1].text, 5000, 5002) = "b\n\n"

\* the URLs a structure probe of owner/repo requests, in order
ProbeUrls(owner, repo) ==
    [i \in 1..Len(commonFiles) |-> RawUrl(owner, repo, "main", commonFiles[i])]

\* C21: the structure probe issues exactly one fetch for each of the five
\* well-known filenames, sequentially in the fixed list order, whatever the
\* outcomes of earlier probes; it appends one success line per probe whose
\* response is successful and no line at all for a probe that returns
\* non-success or whose fetch rejects, and a failed probe never aborts the
\* remaining probes.
C21_ProbesAll ==
    [][/\ (lastEvent'.type = "Enter" /\ Len(tasks') = Len(tasks) + 1
           /\ Last(tasks').fn = "fetchGitHubTree")
          => LET task == Last(tasks')
             IN  /\ task.i = 1
                 /\ fetched' = Append(fetched, ProbeUrls(task.owner, task.repo)[1])
       /\ (lastEvent'.type = "settled" /\ lastEvent'.task.fn = "fetchGitHubTree")
          => LET task == lastEvent'.task
                 settled == lastEvent'.settled
                 urls == ProbeUrls(task.owner, task.repo)
                 ok == settled # Rejected /\ settled.ok
             IN  /\ task.path = commonFiles[task.i]
                 /\ IF ok
                    THEN Appends(output, output',
                             <<[text |-> "  + " \o task.path, type |-> "success"]>>)
                    ELSE output' = output
                 /\ IF task.i < Len(commonFiles)
                    THEN /\ fetched' = Append(fetched, urls[task.i + 1])
                         /\ Len(tasks') = Len(tasks)
                         /\ Last(tasks').fn = "fetchGitHubTree"
                         /\ Last(tasks').i = task.i + 1
                    ELSE /\ fetched' = fetched
                         /\ Len(tasks') = Len(tasks) - 1
                         /\ Len(fetched) >= Len(commonFiles)
                         /\ SubSeq(fetched, Len(fetched) - Len(commonFiles) + 1,
                                   Len(fetched)) = urls]_vars

\* a probe has completed whose first fetch did not succeed and whose last
\* one rejected, with a success listed in between
C21_Witness ==
    /\ lastEvent.type = "settled"
    /\ lastEvent.task.fn = "fetchGitHubTree"
    /\ lastEvent.task.i = Len(commonFiles)
    /\ lastEvent.settled = Rejected
    /\ fetched = ProbeUrls("acme", "widget")
    /\ tasks = <<>>
    /\ \E k \in 1..Len(output) : output[k].text = "  + SECURITY.md"
    /\ \A k \in 1..Len(output) : output[k].text # "  + README.md"

\* the messages the worker has handled, in order
Handled == SubSeq(msgs, 1, delivered)

\* C22: in every state in which the most recently processed panel lifecycle
\* message is PANEL_CLOSED (or no PANEL_OPENED has been processed since
\* install), the badge shows no text, for every interleaving of PANEL_OPENED,
\* PANEL_CLOSED, EXECUTION_START and EXECUTION_END messages, including an
\* EXECUTION_END that arrives after PANEL_CLOSED.
C22_BlankWhenClosed ==
    Lifecycle(delivered) = "PANEL_CLOSED" => BadgeText = ""

\* C23: the badge shows RUN whenever an operation is executing: in every
\* state in which at least one transport evaluation has had its
\* EXECUTION_START processed and its own EXECUTION_END not yet processed, the
\* badge text is RUN, including when two evaluations overlap and one of them
\* ends first.
C23_RunWhileExecuting ==
    Count(Handled, "EXECUTION_START") > Count(Handled, "EXECUTION_END")
        => BadgeText = "RUN"

IsPrefix(a, b) == Len(a) <= Len(b) /\ SubSeq(b, 1, Len(a)) = a

\* C24: commands are never queued, throttled or cancelled: a command
\* submitted while an earlier command is still suspended on a fetch or a
\* transport call is dispatched immediately, and both commands run to
\* completion with each appending its own output lines, for every
\* interleaving of their completions.
C24_NoQueue ==
    /\ [][/\ (lastEvent'.type = "Enter" /\ lastEvent'.command # "")
             => LET command == lastEvent'.command
                IN  /\ submitted' = Append(submitted, command)
                    /\ IsPrefix(Append(output, Echo(command)), output')
                    /\ Len(lastEvent'.calls) = 1
                    /\ IsPrefix(tasks, tasks')
                    /\ IsPrefix(evals, evals')
                    /\ ((IsFileFetch(command) /\ validatedUrl # Null)
                          => Len(tasks') = Len(tasks) + 1)
                    /\ ((Family(command) \in {"eval", "exec", "run"}
                           /\ ~lastEvent'.throws)
                          => Len(evals') = Len(evals) + 1)
          /\ (lastEvent'.type = "settled")
             => /\ \E k \in 1..Len(tasks) :
                       /\ tasks[k] = lastEvent'.task
                       /\ IsPrefix(Remove(tasks, k), tasks')
                /\ Len(tasks') <= Len(tasks)
                /\ evals' = evals
                /\ IsPrefix(output, output')
                /\ ((lastEvent'.task.at \in {"text", "masterText"}
                        /\ lastEvent'.settled # Rejected)
                      => (/\ Len(output') = Len(output) + 3
                          /\ output'[Len(output) + 1].text
                                = "\n--- " \o lastEvent'.task.path \o " ---"))
          /\ (lastEvent'.type = "evalCallback")
             => /\ \E k \in 1..Len(evals) :
                       /\ evals[k].callback = lastEvent'.callback
                       /\ evals' = Remove(evals, k)
                /\ tasks' = tasks
                /\ IsPrefix(output, output')]_vars
    /\ ((tasks # <<>> \/ evals # <<>>) ~> (tasks = <<>> /\ evals = <<>>))

\* a script execution was submitted while a file fetch was suspended and
\* completed first; the file was displayed after it, and nothing is pending
C24_Witness ==
    /\ submitted = <<"scrape github file a.txt", "eval 1+1">>
    /\ tasks = <<>>
    /\ evals = <<>>
    /\ \E i, j, k, l \in 1..Len(output) :
          /\ i < j /\ j < k /\ k < l
          /\ output[i] = Echo("scrape github file a.txt")
          /\ output[j] = Echo("eval 1+1")
          /\ output[k] = [text |-> "0", type |-> "success"]
          /\ output[l] = [text |-> "\n--- a.txt ---", type |-> "success"]

\* the indicator of the family whose handler passed the callback
Owner(name) ==
    IF name = "snippet" THEN "snippet"
    ELSE IF name \in DomCallbacks THEN "dom"
    ELSE "scraping"

\* C25: within one script-execution or DOM command the documented order
\* holds: the status indicator activates, then the code is evaluated by the
\* transport, then the result line is appended to the output, and only then
\* does the status indicator deactivate; i.e. the owning flag is Active at
\* the moment the result line is appended.
C25_ActiveAtResult ==
    [][(/\ lastEvent'.type = "evalCallback"
        /\ lastEvent'.callback \in {"snippet"} \cup DomCallbacks
        /\ Len(output') > Len(output))
       => /\ status[Owner(lastEvent'.callback)]
          /\ status'[Owner(lastEvent'.callback)]]_vars

\* the indicator of the family of a command, none for help and clear
FlagOf(command) ==
    CASE Family(command) = "scrape" -> {"scraping"}
      [] Family(command) = "dom" -> {"dom"}
      [] Family(command) \in {"help", "clear"} -> {}
      [] OTHER -> {"snippet"}

\* C26: the three OperationStatus flags are independent: a command of one
\* family changes only its own family's flag and leaves the other two
\* unchanged; in particular 'scrape page text/links/meta', which uses the
\* transport, changes only the scrape flag and never the script-execution
\* flag, and a dom command never changes the script-execution flag.
C26_FlagsIndependent ==
    [][IF lastEvent'.type = "Enter" /\ lastEvent'.command # ""
       THEN /\ \A t \in IndicatorTypes \ FlagOf(lastEvent'.command) :
                  status'[t] = status[t]
            /\ \A i \in 1..Len(lastEvent'.flips) :
                  lastEvent'.flips[i].type \in FlagOf(lastEvent'.command)
       ELSE IF lastEvent'.type = "settled"
       THEN /\ \A t \in IndicatorTypes \ {"scraping"} : status'[t] = status[t]
            /\ \A i \in 1..Len(lastEvent'.flips) :
                  lastEvent'.flips[i].type = "scraping"
       ELSE status' = status]_vars

\* a page scrape has started an evaluation through the transport and has
\* lit and put out the scrape indicator only
C26_Witness ==
    /\ lastEvent.type = "Enter"
    /\ lastEvent.command = "scrape page text"
    /\ lastEvent.flips = <<[type |-> "scraping", active |-> TRUE],
                           [type |-> "scraping", active |-> FALSE]>>
    /\ Len(evals) = 1
    /\ Last(msgs) = "EXECUTION_START"
    /\ ~status["snippet"]

C28_RejectedMain ==
    [][(/\ lastEvent'.type = "settled"
        /\ lastEvent'.task.fn = "fetchGitHubFile"
        /\ lastEvent'.task.at = "response"
        /\ lastEvent'.settled = Rejected)
       => LET task == lastEvent'.task
          IN  /\ fetched' = fetched
              /\ Last(fetched) = RawUrl(task.owner, task.repo, "main", task.path)
              /\ Appends(output, output',
                     <<[text |-> "ERROR: " \o Rejected.message, type |-> "error"]>>)
              /\ tasks' = <<>>
              /\ ~status'["scraping"]]_vars

\* the fetch of README.md on 'main' was rejected: one request, one error
\* line, nothing pending and the scrape indicator out
C28_Witness ==
    /\ lastEvent.type = "settled"
    /\ lastEvent.task.at = "response"
    /\ lastEvent.settled = Rejected
    /\ fetched = <<RawUrl("acme", "widget", "main", "README.md")>>
    /\ Last(output) = [text |-> "ERROR: Failed to fetch", type |-> "error"]
    /\ tasks = <<>>
    /\ ~status["scraping"]

\* the prefix of the raw URLs of a repository
RepoUrl(owner, repo) == "https://raw.githubusercontent.com/" \o owner \o "/" \o repo \o "/"

\* C29: a repository scrape reads ValidatedTarget once, when it starts: if a
\* validation attempt replaces or clears ValidatedTarget while that scrape is
\* suspended on a fetch, every later fetch of the same command (the 'master'
\* fallback, the remaining structure probes) still uses the owner and repo
\* taken from the target that was valid at the start.
C29_TargetReadOnce ==
    [][/\ (lastEvent'.type = "Enter" /\ Len(tasks') = Len(tasks) + 1)
          => LET pathParts == NonEmpty(SplitOn(validatedUrl.pathname, "/"))
                 task == Last(tasks')
             IN  /\ task.owner = pathParts[1]
                 /\ task.repo = pathParts[2]
                 /\ Len(fetched') = Len(fetched) + 1
                 /\ StartsWith(Last(fetched'), RepoUrl(pathParts[1], pathParts[2]))
       /\ (lastEvent'.type = "settled" /\ Len(tasks') = Len(tasks))
          => /\ Last(tasks').owner = lastEvent'.task.owner
             /\ Last(tasks').repo = lastEvent'.task.repo
       /\ (lastEvent'.type = "settled" /\ fetched' # fetched)
          => /\ Len(fetched') = Len(fetched) + 1
             /\ StartsWith(Last(fetched'),
                           RepoUrl(lastEvent'.task.owner, lastEvent'.task.repo))
       /\ (lastEvent'.type \in {"validate", "targetInput"})
          => /\ tasks' = tasks
             /\ fetched' = fetched]_vars

\* a structure probe started on acme/widget has made all its requests there,
\* although another repository was validated after its first request
C29_Witness ==
    /\ lastEvent.type = "settled"
    /\ lastEvent.task.fn = "fetchGitHubTree"
    /\ validatedUrl # Null
    /\ validatedUrl.pathname = "/other/lib"
    /\ fetched = ProbeUrls("acme", "widget")
    /\ Len(ValidationLines) = 2
    /\ \E i \in 1..Len(output) :
          /\ output[i].text = "Attempting to fetch common files..."
          /\ i < Len(output)
          /\ StartsWith(output[i + 1].text, "+ Target URL validated: ")

\* C30: validation attempts differ in their effect on an existing
\* ValidatedTarget: an attempt with empty or whitespace-only input appends an
\* error line and leaves the previous ValidatedTarget unchanged, whereas an
\* attempt with an unparseable URL or a non-http(s) scheme appends an error
\* line and sets ValidatedTarget to null, so that a following scrape command
\* fails its precondition.
C30_EmptyKeepsTarget ==
    [][/\ (lastEvent'.type = "validate" /\ Trim(targetUrl) = "")
          => /\ validatedUrl' = validatedUrl
             /\ Appends(output, output',
                    <<[text |-> "ERROR: Please enter a URL", type |-> "error"]>>)
       /\ (lastEvent'.type = "validate" /\ Trim(targetUrl) # ""
              /\ ~HttpScheme(targetUrl))
          => /\ validatedUrl' = Null
             /\ Len(output') = Len(output) + 1
             /\ IsPrefix(output, output')
             /\ Last(output').type = "error"
             /\ StartsWith(Last(output').text, "ERROR: Invalid URL - ")
       /\ (lastEvent'.type = "Enter" /\ lastEvent'.command # ""
              /\ Family(lastEvent'.command) = "scrape" /\ validatedUrl = Null)
          => /\ Appends(output, output',
                    <<Echo(lastEvent'.command),
                      [text |-> "ERROR: Please validate a Target URL first",
                       type |-> "error"]>>)
             /\ fetched' = fetched
             /\ evals' = evals
             /\ tasks' = tasks
             /\ msgs' = msgs]_vars

\* a blank attempt after a successful one was refused and left the target
\* in place: the scrape that followed passed its precondition
C30_Witness ==
    /\ lastEvent.type = "Enter"
    /\ Trim(targetUrl) = ""
    /\ validatedUrl # Null
    /\ output = <<[text |-> "+ Target URL validated: https://github.com/acme/widget",
                   type |-> "success"],
                  [text |-> "ERROR: Please enter a URL", type |-> "error"],
                  Echo("scrape github readme"),
                  [text |-> "Scraping GitHub: acme/widget", type |-> "success"]>>
    /\ fetched = <<RawUrl("acme", "widget", "main", "README.md")>>

====
